---- MODULE Spec2Model ----
(***************************************************************************)
(* Verification model of unimodel-elasticsearch.                           *)
(*                                                                         *)
(* Spec    : one Connection, its Index Manager with one Index, and one     *)
(*           Model, with the asynchronous steps of their initialization    *)
(*           and of the mapping push interleaved.                          *)
(* SpecConn: the Connection alone, with callers of getClient().            *)
(* SpecDoc : one Document of a Model, its save() and remove() operations,  *)
(*           and the copies of the record held by the engine.              *)
(* SpecStream, SpecStreamFair: one findStream call and its scroll loop.     *)
(* SpecOps : the synchronous part of the query operations of a Model.      *)
(* SpecManager: the Index Manager asked for several index names.           *)
(* SpecIndex: a Connection and an Index with addMapping called on it.      *)
(* SpecTick: the construction of a Model and the code that runs with it.   *)
(*                                                                         *)
(* Promises are entries of the table `promises`; a pasync waiter is a      *)
(* record [promise, finished] that points at its current promise.         *)
(***************************************************************************)
EXTENDS Integers, Sequences, FiniteSets, TLC

\* ------------------------------------------------------------------ bounds
MaxInit == 3        \* Connection initialize() calls explored
MaxClientCalls == 2 \* Connection getClient() calls explored
MaxCalls == 2       \* overlapping Model calls (initialize/getClient/getMapping)
MaxIndexCalls == 1  \* Model index(field, spec) calls explored
MaxIdxInit == 1     \* explicit Index initialize() calls explored
MaxModelInit == 1   \* Connection initialize() calls explored next to a Model
NumWarmers == 1     \* warmers in the Index configuration
MaxId == 2          \* ids, routing values and parent ids are 1..MaxId (0 = undefined)
MaxDocCalls == 2    \* save()/remove() calls explored on the Document
MaxEdits == 1       \* setter calls explored on the Document
MaxHits == 3        \* records matching the query of findStream
MaxScroll == 2      \* options.scrollSize is 0 (absent) or 1..MaxScroll
MaxLimit == 2       \* options.limit is absent or 0..MaxLimit
MaxGetIndex == 3    \* getIndex(name) calls explored on the Index Manager
MaxConfigSets == 1  \* setIndexConfigs calls explored
MaxStrings == 3     \* strings in the list given to elasticsearchGlobFilter
MaxFields == 2      \* subschemas of the schema given to getKeys()
MaxKeyCalls == 2    \* getKeys() calls explored
MaxExtraIndexes == 1 \* extra indexes of the Model whose queries are converted
MaxBuckets == 2     \* buckets under one node of an aggregate result
MaxSchemaExtras == 2 \* extra indexes given to convertSchema
MaxRequests == 2      \* requestStream calls explored on the HTTP connector
MaxFsRequests == 6    \* requests of one findStream call that are answered

Specs == {"a", "b"}          \* extra-index specs (field and sub-field name)
CallKinds == {"initialize", "getClient", "getMapping"}

VARIABLES
    \* ---- ElasticsearchConnection
    promises,           \* promise table: id -> "pending" | "resolved" | "rejected"
    resetAlways,        \* waiter.reset() renews a pending promise too (library behaviour)
    client,             \* this.client: 0 = none, n = client built by the n-th initialize()
    closedClients,      \* clients on which close() was called
    connectionWaiter,   \* [promise, finished]
    connCycle,          \* number of initialize() calls so far
    healthChecks,       \* cycles whose cluster.health request is in flight
    settles,            \* health-check callbacks run: [by, cycle, ok, promise, first]
    clientCalls,        \* Connection getClient() calls: slot -> [pc, wait, cycle, busy, result]
    connEvents,         \* [connected, error] events emitted by the Connection
    \* ---- ElasticsearchIndexManager / ElasticsearchIndex
    indexOptions,       \* indexOptions.initialize
    indexMap,           \* TRUE when the Index has been constructed and cached
    initializing,       \* index._initializing
    initialized,        \* index._initialized
    initializaing,      \* index._initializaing (sic): "undefined" or FALSE
    indexWaiter,        \* [promise, finished]
    idxPc,              \* position of the initialization chain
    idxWait,            \* promise the chain awaits (connection readiness)
    idxStats,           \* [exists, connected, error, initCalls]: requests, events, calls
    idxOutcome,         \* outcomes delivered to the readiness waiter, in order
    \* ---- ElasticsearchModel
    indexMappingPromises, \* TRUE when a push is cached for the index name
    extraIndexes,       \* sequence of specs
    mapping,            \* this.mapping: "none" or the extra indexes it was derived from
    push,               \* the cached addMapping operation
    putMappings,        \* put-mapping requests issued
    calls,              \* call slot -> [kind, pc, wait, seen, result]
    indexCalls,         \* index(field, spec) calls made
    indexResult,        \* result of the last index(field, spec) call
    \* ---- ElasticsearchDocument and the engine
    mappingOpts,        \* [idPath, parent]: the mapping has _id.path / _parent
    data,               \* this.data
    fields,             \* this.fields: [id, routing, index, parent], 0 = undefined
    originalData,       \* this._originalData: <<>> = null, else <<data>>
    originalFields,     \* this._originalFields: <<>> = null, else <<fields>>
    engine,             \* live copies held by the engine: [id, shard, parent, body]
    inflight,           \* requests in flight: [call, kind, id, routing, index, parent, body]
    docCalls,           \* slot -> [op, pc, norm, purge, old, req, err]
    edits,              \* setter calls made
    history,            \* [indexed, lastOk, saved]: what the engine and the callers were told
    \* ---- ElasticsearchModel query operations
    fs,                 \* one findStream call, its scroll loop and its Document Stream
    opc,                \* one query operation call: [op, input, done, pc, requests]
    \* ---- ElasticsearchIndexManager with several index names
    mgr,                \* [indexConfigs, sets, indexMap, objects, calls]
    \* ---- the tick in which a Model is constructed
    tick,               \* [phase, auto, early]
    \* ---- ElasticsearchHttpConnector
    http,               \* per requestStream call: [pc, body, once, cb, result, thrown, ...]
    \* ---- the options a Model is constructed with
    options,            \* [sendMapping]
    \* ---- elasticsearchGlobFilter
    globCall,           \* [glob, strings, ret, done]
    \* ---- ElasticsearchModel.getKeys
    keysCall,           \* [optionKeys, schema, keys, ret, thrown, calls]
    \* ---- convertQuery
    queryCall,          \* [schema, extraIndexes, field, expr, filter, error, done]
    \* ---- convertAggregateResult
    aggCall,            \* [groupBy, aggregateResult, result, done]
    \* ---- convertSchema
    schemaCall          \* [type, index, extraIndexes, result, done, held, again, redone]

connVars == <<promises, resetAlways, client, closedClients, connectionWaiter,
              connCycle, healthChecks, settles, clientCalls, connEvents>>
idxVars == <<indexOptions, indexMap, initializing, initialized, initializaing,
             indexWaiter, idxPc, idxWait, idxStats, idxOutcome>>
modelVars == <<indexMappingPromises, extraIndexes, mapping, push, putMappings,
               calls, indexCalls, indexResult>>
docVars == <<mappingOpts, data, fields, originalData, originalFields, engine, inflight,
             docCalls, edits, history>>
coreVars == <<connVars, idxVars, modelVars>>
opVars == <<fs, opc, mgr, tick>>
libVars == <<http, options, globCall, keysCall, queryCall, aggCall,
            schemaCall>>
vars == <<connVars, idxVars, modelVars, docVars, opVars, libVars>>

\* ------------------------------------------------------------ pasync waiter
\* pasync.waiter(): a fresh pending promise.
NewWaiter(ps) ==
    [w |-> [promise |-> Len(ps) + 1, finished |-> FALSE], ps |-> Append(ps, "pending")]

\* waiter.reset(): a new promise once the current one has settled.
WaiterReset(w, ps) ==
    IF w.finished \/ resetAlways
    THEN [w |-> [promise |-> Len(ps) + 1, finished |-> FALSE], ps |-> Append(ps, "pending")]
    ELSE [w |-> w, ps |-> ps]

\* waiter.resolve(v) / waiter.reject(e): settles the current promise; a promise settles once.
WaiterSettle(w, ps, outcome) ==
    [w |-> [w EXCEPT !.finished = TRUE],
     ps |-> IF ps[w.promise] = "pending" THEN [ps EXCEPT ![w.promise] = outcome] ELSE ps]

Outcome(ok) == IF ok THEN "resolved" ELSE "rejected"

\* ------------------------------------------------- ElasticsearchConnection
\* initialize(): close the old client, build a new one, reset the waiter and
\* start the health check whose callbacks settle this.connectionWaiter.
ConnInitialize(limit) ==
    /\ connCycle < limit
    /\ LET r == WaiterReset(connectionWaiter, promises) IN
        /\ closedClients' = IF client # 0 THEN closedClients \cup {client} ELSE closedClients
        /\ client' = connCycle + 1
        /\ connCycle' = connCycle + 1
        /\ connectionWaiter' = r.w
        /\ promises' = r.ps
        /\ healthChecks' = healthChecks \cup {connCycle + 1}
    /\ UNCHANGED <<resetAlways, settles, clientCalls, connEvents, idxVars, modelVars, docVars, opVars, libVars>>

\* The health check of cycle h completes: its callbacks resolve or reject
\* this.connectionWaiter, whichever promise it holds by then, and emit.
HealthDone(h, ok) ==
    /\ h \in healthChecks
    /\ healthChecks' = healthChecks \ {h}
    /\ LET r == WaiterSettle(connectionWaiter, promises, Outcome(ok)) IN
        /\ connectionWaiter' = r.w
        /\ promises' = r.ps
        /\ settles' = settles \cup {[by |-> h, cycle |-> connCycle, ok |-> ok,
                                      promise |-> connectionWaiter.promise,
                                      first |-> promises[connectionWaiter.promise] = "pending"]}
    /\ connEvents' = IF ok THEN [connEvents EXCEPT !.connected = @ + 1]
                     ELSE [connEvents EXCEPT !.error = @ + 1]
    /\ UNCHANGED <<resetAlways, client, closedClients, connCycle, clientCalls,
                   idxVars, modelVars, docVars, opVars, libVars>>

HealthRespond == \E h \in 1..MaxInit, ok \in BOOLEAN : HealthDone(h, ok)

\* getClient(): this.connectionWaiter.promise.then((connection) => connection.client)
GetClientCall(k) ==
    /\ clientCalls[k].pc = "idle"
    /\ \A j \in 1..(k - 1) : clientCalls[j].pc # "idle"
    /\ clientCalls' = [clientCalls EXCEPT ![k] =
            [pc |-> "waiting", wait |-> connectionWaiter.promise, cycle |-> connCycle,
             busy |-> connCycle \in healthChecks, result |-> 0]]
    /\ UNCHANGED <<promises, resetAlways, client, closedClients, connectionWaiter, connCycle,
                   healthChecks, settles, connEvents, idxVars, modelVars, docVars, opVars, libVars>>

\* The .then callback of getClient() runs once the awaited promise has settled.
GetClientSettled(k) ==
    /\ clientCalls[k].pc = "waiting"
    /\ promises[clientCalls[k].wait] # "pending"
    /\ clientCalls' = [clientCalls EXCEPT ![k] =
            IF promises[clientCalls[k].wait] = "resolved"
            THEN [@ EXCEPT !.pc = "done", !.result = client]
            ELSE [@ EXCEPT !.pc = "failed"]]
    /\ UNCHANGED <<promises, resetAlways, client, closedClients, connectionWaiter, connCycle,
                   healthChecks, settles, connEvents, idxVars, modelVars, docVars, opVars, libVars>>

InitConn ==
    /\ resetAlways \in BOOLEAN
    /\ promises = <<"pending", "pending">>
    /\ client = 0
    /\ closedClients = {}
    /\ connectionWaiter = [promise |-> 1, finished |-> FALSE]
    /\ connCycle = 0
    /\ healthChecks = {}
    /\ settles = {}
    /\ clientCalls = [k \in 1..MaxClientCalls |->
                        [pc |-> "idle", wait |-> 0, cycle |-> 0, busy |-> FALSE, result |-> 0]]
    /\ connEvents = [connected |-> 0, error |-> 0]

\* ------------------------------------------------------ ElasticsearchIndex
\* The guard of initialize(): already ready, or an attempt is under way.
AlreadyInitializedOnly == initialized
AlreadyInitialized == initialized \/ initializing

\* initialize(): a no-op behind the guard; otherwise mark the attempt, reset
\* the readiness waiter and start the chain behind connection.getClient().
IndexInitialize ==
    IF AlreadyInitialized
    THEN /\ idxStats' = [idxStats EXCEPT !.initCalls = @ + 1]
         /\ UNCHANGED <<initializing, indexWaiter, promises, idxPc, idxWait>>
    ELSE LET r == WaiterReset(indexWaiter, promises) IN
         /\ initializing' = TRUE
         /\ indexWaiter' = r.w
         /\ promises' = r.ps
         /\ idxPc' = [at |-> "awaitClient", n |-> 0]
         /\ idxWait' = connectionWaiter.promise
         /\ idxStats' = [idxStats EXCEPT !.initCalls = @ + 1]

IndexFinishClearing(ok) ==
    LET r == WaiterSettle(indexWaiter, promises, Outcome(ok)) IN
    /\ initializaing' = FALSE
    /\ initializing' = FALSE
    /\ initialized' = (IF ok THEN TRUE ELSE initialized)
    /\ indexWaiter' = r.w
    /\ promises' = r.ps
    /\ idxOutcome' = Append(idxOutcome, Outcome(ok))
    /\ idxStats' = IF ok THEN [idxStats EXCEPT !.connected = @ + 1]
                   ELSE [idxStats EXCEPT !.error = @ + 1]
    /\ idxPc' = [at |-> (IF ok THEN "ready" ELSE "failed"), n |-> 0]
    /\ UNCHANGED <<idxWait, indexOptions, indexMap>>

\* The two callbacks that end the chain: they clear `_initializaing`, settle
\* the readiness waiter and emit "connected" or "error".
IndexFinish(ok) ==
    LET r == WaiterSettle(indexWaiter, promises, Outcome(ok)) IN
    /\ initializaing' = FALSE
    /\ initialized' = (IF ok THEN TRUE ELSE initialized)
    /\ indexWaiter' = r.w
    /\ promises' = r.ps
    /\ idxOutcome' = Append(idxOutcome, Outcome(ok))
    /\ idxStats' = IF ok THEN [idxStats EXCEPT !.connected = @ + 1]
                   ELSE [idxStats EXCEPT !.error = @ + 1]
    /\ idxPc' = [at |-> (IF ok THEN "ready" ELSE "failed"), n |-> 0]
    /\ UNCHANGED <<initializing, idxWait, indexOptions, indexMap>>

\* The initialize() calls made on the Index besides the one its constructor
\* makes when it is given initialize options.
ExplicitInitCalls == idxStats.initCalls - (IF indexOptions THEN 1 ELSE 0)

\* An explicit initialize() call on the constructed Index.
IdxInitializeCall ==
    /\ indexMap
    /\ ExplicitInitCalls < MaxIdxInit
    /\ IndexInitialize
    /\ UNCHANGED <<indexOptions, indexMap, initialized, initializaing, idxOutcome>>
    /\ UNCHANGED <<resetAlways, client, closedClients, connectionWaiter, connCycle,
                   healthChecks, settles, clientCalls, connEvents, modelVars, docVars, opVars, libVars>>

\* connection.getClient() has settled: issue indices.exists, or fail.
IdxClientSettled ==
    /\ idxPc.at = "awaitClient"
    /\ promises[idxWait] # "pending"
    /\ IF promises[idxWait] = "resolved"
       THEN /\ idxPc' = [at |-> "exists", n |-> 0]
            /\ idxStats' = [idxStats EXCEPT !.exists = @ + 1]
            /\ UNCHANGED <<promises, indexOptions, indexMap, initializing, initialized,
                           initializaing, indexWaiter, idxWait, idxOutcome>>
       ELSE IndexFinish(FALSE)
    /\ UNCHANGED <<resetAlways, client, closedClients, connectionWaiter, connCycle,
                   healthChecks, settles, clientCalls, connEvents, modelVars, docVars, opVars, libVars>>

\* indices.exists answers: create the index, or update the existing one.
IdxExistsRespond(r) ==
    /\ idxPc.at = "exists"
    /\ IF r = "error"
       THEN IndexFinish(FALSE)
       ELSE /\ idxPc' = [at |-> (IF r = "absent" THEN "create" ELSE "putSettings"), n |-> 0]
            /\ UNCHANGED <<promises, indexOptions, indexMap, initializing, initialized,
                           initializaing, indexWaiter, idxWait, idxStats, idxOutcome>>
    /\ UNCHANGED <<resetAlways, client, closedClients, connectionWaiter, connCycle,
                   healthChecks, settles, clientCalls, connEvents, modelVars, docVars, opVars, libVars>>

\* _initializeNewIndex: the indices.create request answers.
IdxCreateRespond(ok) ==
    /\ idxPc.at = "create"
    /\ IndexFinish(ok)
    /\ UNCHANGED <<resetAlways, client, closedClients, connectionWaiter, connCycle,
                   healthChecks, settles, clientCalls, connEvents, modelVars, docVars, opVars, libVars>>

\* _initializeExistingIndex: putSettings, then the warmers one at a time.
IdxUpdateRespond(ok) ==
    /\ idxPc.at \in {"putSettings", "warmer"}
    /\ IF ok /\ idxPc.n < NumWarmers
       THEN /\ idxPc' = [at |-> "warmer", n |-> idxPc.n + 1]
            /\ UNCHANGED <<promises, indexOptions, indexMap, initializing, initialized,
                           initializaing, indexWaiter, idxWait, idxStats, idxOutcome>>
       ELSE IndexFinish(ok)
    /\ UNCHANGED <<resetAlways, client, closedClients, connectionWaiter, connCycle,
                   healthChecks, settles, clientCalls, connEvents, modelVars, docVars, opVars, libVars>>

InitIndex ==
    /\ indexOptions \in BOOLEAN
    /\ indexMap = FALSE
    /\ initializing = FALSE
    /\ initialized = FALSE
    /\ initializaing = "undefined"
    /\ indexWaiter = [promise |-> 2, finished |-> FALSE]
    /\ idxPc = [at |-> "none", n |-> 0]
    /\ idxWait = 0
    /\ idxStats = [exists |-> 0, connected |-> 0, error |-> 0, initCalls |-> 0]
    /\ idxOutcome = <<>>

\* ------------------------------------------------------ ElasticsearchModel
connFrame == <<resetAlways, client, closedClients, connectionWaiter, connCycle,
               healthChecks, settles, clientCalls, connEvents>>

\* convertSchema rejects two extra indexes that claim the same sub-field.
ConvertSchemaThrows(extra) ==
    \E i, j \in 1..Len(extra) : i < j /\ extra[i] = extra[j]

\* The test of index(): !_.isEmpty(this.indexMappingPromises)
IndexLockedEarly == push.pc \in {"ok", "failed"}
IndexLocked == indexMappingPromises

\* index(field, spec): refused once a mapping push is cached.
ModelIndex(s) ==
    /\ indexCalls < MaxIndexCalls
    /\ indexCalls' = indexCalls + 1
    /\ IF IndexLocked
       THEN /\ indexResult' = "INTERNAL_ERROR"
            /\ UNCHANGED extraIndexes
       ELSE /\ indexResult' = "ok"
            /\ extraIndexes' = Append(extraIndexes, s)
    /\ UNCHANGED <<indexMappingPromises, mapping, push, putMappings, calls>>
    /\ UNCHANGED <<connVars, idxVars, docVars, opVars, libVars>>

\* indexManager.getIndex(name), reached through _ensureIndex(defaultIndex) at
\* the start of initialize(), getClient() and getMapping(): the first call
\* constructs the Index (whose constructor may call initialize()).
ModelCall(c, kind) ==
    /\ calls[c].pc = "idle"
    /\ \A j \in 1..(c - 1) : calls[j].pc # "idle"
    /\ IF indexMap
       THEN UNCHANGED <<promises, idxVars>>
       ELSE /\ indexMap' = TRUE
            /\ IF indexOptions
               THEN IndexInitialize
               ELSE UNCHANGED <<promises, initializing, indexWaiter, idxPc, idxWait, idxStats>>
            /\ UNCHANGED <<indexOptions, initialized, initializaing, idxOutcome>>
    /\ calls' = [calls EXCEPT ![c] =
            [kind |-> kind, pc |-> "ensureIndex", wait |-> indexWaiter'.promise,
             seen |-> "none", result |-> 0]]
    /\ UNCHANGED <<indexMappingPromises, extraIndexes, mapping, push, putMappings,
                   indexCalls, indexResult, connFrame, docVars, opVars, libVars>>

\* The test of _ensureMapping: a push is already cached for this index name.
MappingCachedNever == FALSE
MappingCached == indexMappingPromises

\* The Index is ready: _ensureMapping(index) returns the cached push, or
\* converts the schema and caches index.addMapping(typeName, mapping).
ModelIndexSettled(c) ==
    /\ calls[c].pc = "ensureIndex"
    /\ promises[calls[c].wait] # "pending"
    /\ IF promises[calls[c].wait] = "rejected"
       THEN /\ calls' = [calls EXCEPT ![c].pc = "failed"]
            /\ UNCHANGED <<indexMappingPromises, mapping, push>>
       ELSE IF MappingCached
       THEN /\ calls' = [calls EXCEPT ![c].pc = "awaitMapping"]
            /\ UNCHANGED <<indexMappingPromises, mapping, push>>
       ELSE IF ConvertSchemaThrows(extraIndexes)
       THEN /\ calls' = [calls EXCEPT ![c].pc = "failed"]
            /\ UNCHANGED <<indexMappingPromises, mapping, push>>
       ELSE /\ mapping' = extraIndexes
            /\ push' = [pc |-> "awaitIndex", wait |-> indexWaiter.promise]
            /\ indexMappingPromises' = TRUE
            /\ calls' = [calls EXCEPT ![c].pc = "awaitMapping"]
    /\ UNCHANGED <<extraIndexes, putMappings, indexCalls, indexResult, connVars, idxVars, docVars, opVars, libVars>>

\* A then() callback runs when the promise it is chained to is fulfilled; a
\* rejection skips it.
ThenRunsAlways(p) == TRUE
ThenRuns(p) == promises[p] = "resolved"

\* new ElasticsearchIndex(name, connection, config, indexOptions): the
\* constructor calls initialize() when indexOptions.initialize is set.
IndexConstruct ==
    /\ ~indexMap
    /\ indexMap' = TRUE
    /\ IF indexOptions
       THEN IndexInitialize
       ELSE UNCHANGED <<promises, initializing, indexWaiter, idxPc, idxWait, idxStats>>
    /\ UNCHANGED <<indexOptions, initialized, initializaing, idxOutcome, connFrame,
                   modelVars, docVars, opVars, libVars>>

\* index.addMapping(typeName, mapping) called on the Index itself: the chain
\* starts behind this.indexWaiter.promise.
AddMappingCall ==
    /\ indexMap
    /\ push.pc = "none"
    /\ push' = [pc |-> "awaitIndex", wait |-> indexWaiter.promise]
    /\ UNCHANGED <<indexMappingPromises, extraIndexes, mapping, putMappings, calls,
                   indexCalls, indexResult, connVars, idxVars, docVars, opVars, libVars>>

\* addMapping, first link: the Index readiness promise has settled.
PushIndexSettled ==
    /\ push.pc = "awaitIndex"
    /\ promises[push.wait] # "pending"
    /\ push' = IF ThenRuns(push.wait)
               THEN [pc |-> "awaitConn", wait |-> connectionWaiter.promise]
               ELSE [push EXCEPT !.pc = "failed"]
    /\ UNCHANGED <<indexMappingPromises, extraIndexes, mapping, putMappings, calls,
                   indexCalls, indexResult, connVars, idxVars, docVars, opVars, libVars>>

\* addMapping, second link: the Connection is ready, issue indices.putMapping.
PushConnSettled ==
    /\ push.pc = "awaitConn"
    /\ promises[push.wait] # "pending"
    /\ IF ThenRuns(push.wait)
       THEN /\ push' = [push EXCEPT !.pc = "inflight"]
            /\ putMappings' = Append(putMappings, mapping)
       ELSE /\ push' = [push EXCEPT !.pc = "failed"]
            /\ UNCHANGED putMappings
    /\ UNCHANGED <<indexMappingPromises, extraIndexes, mapping, calls,
                   indexCalls, indexResult, connVars, idxVars, docVars, opVars, libVars>>

\* The put-mapping request answers.
PushRespond(ok) ==
    /\ push.pc = "inflight"
    /\ push' = [push EXCEPT !.pc = IF ok THEN "ok" ELSE "failed"]
    /\ UNCHANGED <<indexMappingPromises, extraIndexes, mapping, putMappings, calls,
                   indexCalls, indexResult, connVars, idxVars, docVars, opVars, libVars>>

\* The cached push has settled: initialize() resolves with the Index,
\* getMapping() with this.mapping, getClient() goes on to connection.getClient().
ModelMappingSettled(c) ==
    /\ calls[c].pc = "awaitMapping"
    /\ push.pc \in {"ok", "failed"}
    /\ calls' = [calls EXCEPT ![c] =
            IF push.pc = "failed"
            THEN [@ EXCEPT !.pc = "failed", !.seen = "failed"]
            ELSE IF @.kind = "getClient"
            THEN [@ EXCEPT !.pc = "awaitConn", !.seen = "ok", !.wait = connectionWaiter.promise]
            ELSE [@ EXCEPT !.pc = "done", !.seen = "ok"]]
    /\ UNCHANGED <<indexMappingPromises, extraIndexes, mapping, push, putMappings,
                   indexCalls, indexResult, connVars, idxVars, docVars, opVars, libVars>>

\* Model getClient(), last link: connection.getClient() has settled.
ModelConnSettled(c) ==
    /\ calls[c].pc = "awaitConn"
    /\ promises[calls[c].wait] # "pending"
    /\ calls' = [calls EXCEPT ![c] =
            IF promises[calls[c].wait] = "resolved"
            THEN [@ EXCEPT !.pc = "done", !.result = client]
            ELSE [@ EXCEPT !.pc = "failed"]]
    /\ UNCHANGED <<indexMappingPromises, extraIndexes, mapping, push, putMappings,
                   indexCalls, indexResult, connVars, idxVars, docVars, opVars, libVars>>

InitModel ==
    /\ indexMappingPromises = FALSE
    /\ extraIndexes = <<>>
    /\ mapping = <<"none">>
    /\ push = [pc |-> "none", wait |-> 0]
    /\ putMappings = <<>>
    /\ calls = [c \in 1..MaxCalls |->
                  [kind |-> "none", pc |-> "idle", wait |-> 0, seen |-> "none", result |-> 0]]
    /\ indexCalls = 0
    /\ indexResult = "none"

\* --------------------------------------------------- ElasticsearchDocument
Ids == 1..MaxId
NoFields == [id |-> 0, routing |-> 0, index |-> 0, parent |-> 0]
NoCall == [op |-> "none", pc |-> "idle", norm |-> 0, purge |-> "none", old |-> <<>>,
           req |-> NoFields, err |-> "none"]
Active(call) == call.pc \notin {"idle", "done", "failed"}

\* The shard a request lands on: its routing, else its parent, else its id.
Shard(id, routing, parent) ==
    IF routing # 0 THEN routing ELSE IF parent # 0 THEN parent ELSE id

Copies(e, id) == {x \in e : x.id = id}

\* The engine stores a record: it replaces the copy of that id on that shard only.
EngineIndex(e, id, routing, parent, body) ==
    {x \in e : ~(x.id = id /\ x.shard = Shard(id, routing, parent))}
        \cup {[id |-> id, shard |-> Shard(id, routing, parent), parent |-> parent, body |-> body]}

\* The engine deletes the copy of that id on the shard the request lands on.
EngineHas(e, id, routing, parent) ==
    \E x \in e : x.id = id /\ x.shard = Shard(id, routing, parent)
EngineDelete(e, id, routing, parent) ==
    {x \in e : ~(x.id = id /\ x.shard = Shard(id, routing, parent))}

\* A call ends in a rejection (or a throw) with that error.
Fail(c, err) ==
    [docCalls EXCEPT ![c] = [NoCall EXCEPT !.op = docCalls[c].op, !.pc = "failed", !.err = err]]

\* A call is refused before any asynchronous step.
Refuse(c, op, err) ==
    [docCalls EXCEPT ![c] = [NoCall EXCEPT !.op = op, !.pc = "failed", !.err = err]]

\* A call resolves.
Done(c) ==
    [docCalls EXCEPT ![c] = [NoCall EXCEPT !.op = docCalls[c].op, !.pc = "done"]]

\* The calls on the Document are made one after another: the next one starts
\* when the previous one has settled.
CanStart(c) ==
    /\ docCalls[c].pc = "idle"
    /\ \A j \in 1..(c - 1) : docCalls[j].pc # "idle"
    /\ \A j \in 1..MaxDocCalls : ~Active(docCalls[j])

Started(c, call) == [docCalls EXCEPT ![c] = call]

\* Setters: setInternalId, setRouting, setIndexId, setParentId.
DocSet(f, v) ==
    /\ edits < MaxEdits
    /\ edits' = edits + 1
    /\ fields' = [fields EXCEPT ![f] = v]
    /\ UNCHANGED <<mappingOpts, data, originalData, originalFields, engine, inflight,
                   docCalls, history, coreVars, opVars, libVars>>

\* save(opts): invalid consistency/replication options throw at once.
SaveCall(c, valid) ==
    /\ CanStart(c)
    /\ docCalls' = IF valid
                   THEN Started(c, [NoCall EXCEPT !.op = "save", !.pc = "mapping"])
                   ELSE Refuse(c, "save", "INVALID_ARGUMENT")
    /\ UNCHANGED <<mappingOpts, data, fields, originalData, originalFields, engine,
                   inflight, edits, history, coreVars, opVars, libVars>>

\* schema.normalize(this.data, { serialize: true }).
Normalize(d) == d

\* The id read from the normalized data at mapping._id.path.
IdFromData(f, norm) ==
    IF f.id = 0 /\ mappingOpts.idPath THEN [f EXCEPT !.id = norm] ELSE f

\* The default routing: the parent id of a child, else the internal id.
DefaultRouting(f) ==
    IF f.routing # 0 THEN f
    ELSE IF mappingOpts.parent /\ f.parent # 0 THEN [f EXCEPT !.routing = f.parent]
    ELSE [f EXCEPT !.routing = f.id]

\* pre-normalize hook and normalize, then model.getMapping() settles: set the
\* internal id and the routing if unset.
SaveMapping(c, ok) ==
    /\ docCalls[c].pc = "mapping"
    /\ IF ok
       THEN /\ fields' = DefaultRouting(IdFromData(fields, Normalize(data)))
            /\ docCalls' = [docCalls EXCEPT ![c].pc = "client", ![c].norm = Normalize(data)]
       ELSE /\ docCalls' = Fail(c, "rejected")
            /\ UNCHANGED fields
    /\ UNCHANGED <<mappingOpts, data, originalData, originalFields, engine, inflight,
                   edits, history, coreVars, opVars, libVars>>

\* The index id from model.getIndex() if none is set.
WithIndex(f) == IF f.index = 0 THEN [f EXCEPT !.index = 1] ELSE f

\* An original field that is set differs from the current one.
Differs(orig, f) ==
    /\ orig # <<>>
    /\ \E k \in {"id", "routing", "index", "parent"} : orig[1][k] # 0 /\ f[k] # orig[1][k]

DeleteRequest(c, f) ==
    [call |-> c, kind |-> "delete", id |-> f.id, routing |-> f.routing,
     index |-> f.index, parent |-> f.parent, body |-> 0]
IndexRequest(c, f, body) ==
    [call |-> c, kind |-> "index", id |-> f.id, routing |-> f.routing,
     index |-> f.index, parent |-> f.parent, body |-> body]

\* The index request is chained behind the purge delete.
PurgeNotAwaited == FALSE
PurgeAwaited == TRUE

\* post-normalize and pre-save hooks and the index id, then model.getClient()
\* settles: purge the old record first if needed, else index.
SaveClient(c, ok) ==
    /\ docCalls[c].pc = "client"
    /\ IF ~ok
       THEN /\ docCalls' = Fail(c, "rejected")
            /\ UNCHANGED <<inflight, fields>>
       ELSE /\ fields' = WithIndex(fields)
            /\ IF Differs(originalFields, fields')
               THEN /\ inflight' = inflight \cup {DeleteRequest(c, originalFields[1])}
                            \cup (IF PurgeAwaited THEN {}
                                  ELSE {IndexRequest(c, fields', docCalls[c].norm)})
                    /\ docCalls' = [docCalls EXCEPT ![c].pc = "purging",
                                                    ![c].purge = "inflight",
                                                    ![c].old = originalFields]
               ELSE /\ inflight' = inflight \cup {IndexRequest(c, fields', docCalls[c].norm)}
                    /\ docCalls' = [docCalls EXCEPT ![c].pc = "indexing", ![c].req = fields',
                                                    ![c].old = originalFields]
    /\ UNCHANGED <<mappingOpts, data, originalData, originalFields, engine,
                   edits, history, coreVars, opVars, libVars>>

\* The purge delete answers; a record that is not there is an error (404).
SavePurged(c, ok) ==
    /\ docCalls[c].pc = "purging"
    /\ \E r \in inflight :
        /\ r.call = c /\ r.kind = "delete"
        /\ ok => EngineHas(engine, r.id, r.routing, r.parent)
        /\ IF ok
           THEN /\ engine' = EngineDelete(engine, r.id, r.routing, r.parent)
                /\ inflight' = (inflight \ {r}) \cup {IndexRequest(c, fields, docCalls[c].norm)}
                /\ docCalls' = [docCalls EXCEPT ![c].pc = "indexing", ![c].purge = "ok",
                                                ![c].req = fields]
           ELSE /\ inflight' = inflight \ {r}
                /\ docCalls' = Fail(c, "purge")
                /\ UNCHANGED engine
    /\ UNCHANGED <<mappingOpts, data, fields, originalData, originalFields, edits, history,
                   coreVars, opVars, libVars>>

\* The fields after the index response: id and index from the response, and
\* the parent and routing the engine echoes, if any.
FieldsFromResponse(f, r, id, echo) ==
    LET g == [f EXCEPT !.id = id, !.index = r.index]
        h == IF echo /\ r.parent # 0 THEN [g EXCEPT !.parent = r.parent] ELSE g
    IN IF echo /\ Shard(0, r.routing, r.parent) # 0
       THEN [h EXCEPT !.routing = Shard(0, r.routing, r.parent)] ELSE h

\* deepCopy of this.data / this.fields into the original snapshot.
Snapshot(x) == <<x>>

\* The index request answers (the engine picks an unused id when none was
\* sent); on success the fields are refreshed and the snapshot is taken.
SaveIndexed(c, ok, echo) ==
    /\ docCalls[c].pc = "indexing"
    /\ \E r \in inflight, id \in Ids :
        /\ r.call = c /\ r.kind = "index"
        /\ IF r.id # 0 THEN id = r.id ELSE Copies(engine, id) = {}
        /\ inflight' = inflight \ {r}
        /\ IF ok
           THEN /\ engine' = EngineIndex(engine, id, r.routing, r.parent, r.body)
                /\ fields' = FieldsFromResponse(fields, r, id, echo)
                /\ originalData' = Snapshot(data)
                /\ originalFields' = Snapshot(fields')
                /\ docCalls' = [docCalls EXCEPT ![c].pc = "postSave"]
                /\ history' = [history EXCEPT !.indexed = "indexed"]
           ELSE /\ docCalls' = Fail(c, "rejected")
                /\ UNCHANGED <<engine, fields, originalData, originalFields, history>>
    /\ UNCHANGED <<mappingOpts, data, edits, coreVars, opVars, libVars>>

\* post-save hook, then save() resolves with the Document.
SavePostSave(c, ok) ==
    /\ docCalls[c].pc = "postSave"
    /\ IF ok
       THEN /\ docCalls' = Done(c)
            /\ history' = [history EXCEPT !.lastOk = "save", !.saved = TRUE]
       ELSE /\ docCalls' = Fail(c, "postSave")
            /\ UNCHANGED history
    /\ UNCHANGED <<mappingOpts, data, fields, originalData, originalFields, engine,
                   inflight, edits, coreVars, opVars, libVars>>

\* The first test of remove(): no original snapshot.
RemoveRefusedNever == FALSE
RemoveRefused == originalData = <<>> \/ originalFields = <<>>

\* this._originalFields, read as a record (no field is set when it is null).
Original == IF originalFields = <<>> THEN NoFields ELSE originalFields[1]

\* remove(): the two precondition checks.
RemoveCall(c) ==
    /\ CanStart(c)
    /\ docCalls' =
        IF RemoveRefused
        THEN Refuse(c, "remove", "DB_ERROR: did not originally exist")
        ELSE IF Original.id = 0 \/ Original.index = 0
        THEN Refuse(c, "remove", "DB_ERROR: no id or index")
        ELSE Started(c, [NoCall EXCEPT !.op = "remove", !.pc = "rmMapping"])
    /\ UNCHANGED <<mappingOpts, data, fields, originalData, originalFields, engine,
                   inflight, edits, history, coreVars, opVars, libVars>>

\* model.getMapping() settles: default the routing of the original fields.
RemoveMapping(c, ok) ==
    /\ docCalls[c].pc = "rmMapping"
    /\ IF ~ok
       THEN /\ docCalls' = Fail(c, "rejected")
            /\ UNCHANGED originalFields
       ELSE IF originalFields = <<>>
       THEN /\ docCalls' = Fail(c, "TypeError")
            /\ UNCHANGED originalFields
       ELSE /\ originalFields' = <<DefaultRouting(originalFields[1])>>
            /\ docCalls' = [docCalls EXCEPT ![c].pc = "rmClient"]
    /\ UNCHANGED <<mappingOpts, data, fields, originalData, engine, inflight, edits, history,
                   coreVars, opVars, libVars>>

\* pre-remove hook and connection.getClient(), then the delete request.
RemoveClient(c, ok) ==
    /\ docCalls[c].pc = "rmClient"
    /\ IF ~ok
       THEN /\ docCalls' = Fail(c, "rejected")
            /\ UNCHANGED inflight
       ELSE IF originalFields = <<>>
       THEN /\ docCalls' = Fail(c, "TypeError")
            /\ UNCHANGED inflight
       ELSE /\ inflight' = inflight \cup {DeleteRequest(c, originalFields[1])}
            /\ docCalls' = [docCalls EXCEPT ![c].pc = "removing", ![c].old = originalFields]
    /\ UNCHANGED <<mappingOpts, data, fields, originalData, originalFields, engine,
                   edits, history, coreVars, opVars, libVars>>

\* The delete request of remove() answers.
RemoveDeleted(c, ok) ==
    /\ docCalls[c].pc = "removing"
    /\ \E r \in inflight :
        /\ r.call = c /\ r.kind = "delete"
        /\ ok => EngineHas(engine, r.id, r.routing, r.parent)
        /\ inflight' = inflight \ {r}
        /\ IF ok
           THEN /\ engine' = EngineDelete(engine, r.id, r.routing, r.parent)
                /\ docCalls' = [docCalls EXCEPT ![c].pc = "postRemove"]
           ELSE /\ docCalls' = Fail(c, "rejected")
                /\ UNCHANGED engine
    /\ UNCHANGED <<mappingOpts, data, fields, originalData, originalFields, edits, history,
                   coreVars, opVars, libVars>>

\* The original snapshot after a removal.
Kept(x) == x
Cleared(x) == <<>>

\* post-remove hook, then the snapshot is cleared and remove() resolves.
RemovePost(c, ok) ==
    /\ docCalls[c].pc = "postRemove"
    /\ IF ok
       THEN /\ originalData' = Cleared(originalData)
            /\ originalFields' = Cleared(originalFields)
            /\ docCalls' = Done(c)
            /\ history' = [history EXCEPT !.lastOk = "remove", !.indexed = "removed"]
       ELSE /\ docCalls' = Fail(c, "rejected")
            /\ UNCHANGED <<originalData, originalFields, history>>
    /\ UNCHANGED <<mappingOpts, data, fields, engine, inflight, edits, coreVars, opVars, libVars>>

\* A Document from model.create(data, fields), or from a hit through fromESData.
InitDoc ==
    /\ mappingOpts \in [idPath : BOOLEAN, parent : BOOLEAN]
    /\ data = 1
    /\ inflight = {}
    /\ docCalls = [c \in 1..MaxDocCalls |-> NoCall]
    /\ edits = 0
    /\ \/ /\ fields \in {[NoFields EXCEPT !.parent = p] : p \in {0, 1}}
          /\ originalData = <<>>
          /\ originalFields = <<>>
          /\ engine = {}
          /\ history = [indexed |-> "never", lastOk |-> "never", saved |-> FALSE]
       \/ \E r \in {0, 2}, withFields \in BOOLEAN :
          /\ fields = [id |-> 1, index |-> 1, parent |-> 0,
                       routing |-> IF withFields THEN r ELSE 0]
          /\ originalData = <<data>>
          /\ originalFields = <<fields>>
          /\ engine = {[id |-> 1, shard |-> Shard(1, r, 0), parent |-> 0, body |-> data]}
          /\ history = [indexed |-> "hit", lastOk |-> "hit", saved |-> FALSE]

\* ------------------------------------- the tick of a Model's construction
\* Callbacks (of promises, of requests, of setImmediate) run only when the
\* synchronous code that is executing has returned.
CallbacksRunAnytime == TRUE
CallbacksRun == tick.phase # "sync"

\* new ElasticsearchModel(...): with options.initialize not false,
\* setImmediate(() => this.initialize()) is scheduled; the code that called
\* the constructor goes on running.
ModelConstruct(initialize) ==
    /\ tick.phase = "before"
    /\ tick' = [tick EXCEPT !.phase = "sync", !.auto = initialize]
    /\ UNCHANGED <<fs, opc, mgr, coreVars, docVars, libVars>>

\* The synchronous code that constructed the Model returns.
TickEnds ==
    /\ tick.phase = "sync"
    /\ tick' = [tick EXCEPT !.phase = "async", !.early = extraIndexes]
    /\ UNCHANGED <<fs, opc, mgr, coreVars, docVars, libVars>>

\* The setImmediate callback: this.initialize(), once.
AutoInitialize ==
    /\ CallbacksRun
    /\ tick.phase = "async"
    /\ tick.auto
    /\ \A c \in 1..MaxCalls : calls[c].kind # "autoInitialize"
    /\ \E c \in 1..MaxCalls : ModelCall(c, "autoInitialize")

\* ------------------------------------- ElasticsearchIndexManager.getIndex
\* Index names and glob expressions are strings, written as sequences of
\* characters.
Names == {<<"a">>, <<"b", "a">>, <<"c">>}
Globs == {<<"a">>, <<"b", "*">>}

\* The regular expression built from a glob matches at the start of str:
\* '*' becomes '.*', every other character stands for itself.
RECURSIVE MatchesPrefix(_, _)
MatchesPrefix(glob, str) ==
    IF glob = <<>> THEN TRUE
    ELSE IF Head(glob) = "*"
         THEN \E k \in 0..Len(str) : MatchesPrefix(Tail(glob), SubSeq(str, k + 1, Len(str)))
         ELSE /\ str # <<>>
              /\ Head(str) = Head(glob)
              /\ MatchesPrefix(Tail(glob), Tail(str))

\* glob.replace(/,/g, ')|('): the alternatives of the regular expression are
\* the pieces of the glob between commas.
RECURSIVE Alternatives(_, _)
Alternatives(glob, piece) ==
    IF glob = <<>> THEN {piece}
    ELSE IF Head(glob) = ","
         THEN {piece} \cup Alternatives(Tail(glob), <<>>)
         ELSE Alternatives(Tail(glob), Append(piece, Head(glob)))

\* elasticsearchGlobFilter(glob, [ name ]).length: regex.test(name), which
\* looks for a match of one alternative anywhere in the name.
GlobMatches(glob, name) ==
    \E alt \in Alternatives(glob, <<>>) :
        \E k \in 0..Len(name) : MatchesPrefix(alt, SubSeq(name, k + 1, Len(name)))

\* elasticsearchGlobFilter(glob, strings): the strings the regular expression
\* matches, in their order.
RECURSIVE elasticsearchGlobFilter(_, _)
elasticsearchGlobFilter(glob, strings) ==
    IF strings = <<>> THEN <<>>
    ELSE IF GlobMatches(glob, Head(strings))
         THEN <<Head(strings)>> \o elasticsearchGlobFilter(glob, Tail(strings))
         ELSE elasticsearchGlobFilter(glob, Tail(strings))

\* The strings of the documented examples, as sequences of characters.
Foobar == <<"f", "o", "o", "b", "a", "r">>
Baz == <<"b", "a", "z">>
Qux == <<"q", "u", "x">>
FooStar == <<"f", "o", "o", "*">>
BarCommaBaz == <<"b", "a", "r", ",", "b", "a", "z">>
GlobInputs == {FooStar, BarCommaBaz, <<"*">>, Baz}
StringInputs == {Foobar, Baz, Qux}

RECURSIVE Lists(_, _)
Lists(S, n) ==
    IF n = 0 THEN {<<>>}
    ELSE Lists(S, n - 1) \cup {Append(l, x) : l \in {m \in Lists(S, n - 1) : Len(m) = n - 1}, x \in S}

\* A call of elasticsearchGlobFilter and its return value.
GlobFilterCall ==
    /\ ~globCall.done
    /\ globCall' = [globCall EXCEPT
                       !.ret = elasticsearchGlobFilter(globCall.glob, globCall.strings),
                       !.done = TRUE]
    /\ UNCHANGED <<http, options, keysCall, queryCall, aggCall, schemaCall, coreVars, docVars, opVars>>

NoGlobCall == globCall = [glob |-> <<>>, strings |-> <<>>, ret |-> <<>>, done |-> TRUE]

\* for (let glob in this.indexConfigs) ... break: the position of the first
\* matching glob, 0 when there is none.
MatchingConfig(configs, name) ==
    LET hits == {i \in 1..Len(configs) : GlobMatches(configs[i], name)}
    IN IF hits = {} THEN 0 ELSE CHOOSE i \in hits : \A j \in hits : i <= j

\* if (!matchingConfig)
MissingConfigNever(cfg) == FALSE
MissingConfig(cfg) == cfg = 0

\* if (name in this.indexMap)
InIndexMapNever(m, name) == FALSE
InIndexMap(m, name) == m.indexMap[name] # 0

\* The glob tables: lists of distinct globs, keys in insertion order.
ConfigTables ==
    {<<>>} \cup {<<g>> : g \in Globs}
           \cup {<<g, h>> : <<g, h>> \in {x \in Globs \X Globs : x[1] # x[2]}}

\* new ElasticsearchIndexManager(connection, indexConfigs, indexOptions)
NewManager(configs) ==
    [indexConfigs |-> configs, sets |-> 0,
     indexMap |-> [n \in Names |-> 0], objects |-> <<>>, calls |-> <<>>]

\* getIndex(name): the waiter promise of the cached Index, or a rejection
\* with XError.DB_ERROR when no glob matches (result 0), or a new Index,
\* cached, and its waiter promise (result: the number of the Index object).
GetIndex(name) ==
    /\ Len(mgr.calls) < MaxGetIndex
    /\ LET cfg == MatchingConfig(mgr.indexConfigs, name)
           me == Len(mgr.calls) + 1
           call(r) == [name |-> name, result |-> r, sets |-> mgr.sets]
       IN mgr' =
            IF InIndexMap(mgr, name)
            THEN [mgr EXCEPT !.calls = Append(mgr.calls, call(mgr.indexMap[name]))]
            ELSE IF MissingConfig(cfg)
            THEN [mgr EXCEPT !.calls = Append(mgr.calls, call(0))]
            ELSE [mgr EXCEPT
                    !.objects = Append(mgr.objects,
                                       [name |-> name, config |-> cfg, by |-> me,
                                        waiter |-> "pending"]),
                    !.indexMap[name] = Len(mgr.objects) + 1,
                    !.calls = Append(mgr.calls, call(Len(mgr.objects) + 1))]
    /\ UNCHANGED <<fs, opc, tick, coreVars, docVars, libVars>>

\* The initialization of an Index ends: this.indexWaiter.resolve(this) or
\* this.indexWaiter.reject(err).
ManagedIndexSettles(o, ok) ==
    /\ o \in 1..Len(mgr.objects)
    /\ mgr.objects[o].waiter = "pending"
    /\ mgr' = [mgr EXCEPT !.objects[o].waiter = Outcome(ok)]
    /\ UNCHANGED <<fs, opc, tick, coreVars, docVars, libVars>>

\* connection.setIndexConfigs(indexConfigs)
SetIndexConfigs(configs) ==
    /\ mgr.sets < MaxConfigSets
    /\ mgr' = [mgr EXCEPT !.indexConfigs = configs, !.sets = mgr.sets + 1]
    /\ UNCHANGED <<fs, opc, tick, coreVars, docVars, libVars>>

\* --------------------------------------- ElasticsearchModel query operations
Ops == {"find", "findStream", "count", "remove", "update", "aggregateMulti"}

\* The steps that throw on a malformed query, update or aggregate.
Checks == {"normalizeQuery", "convertQuery", "normalizeUpdate",
           "normalizeAggregate", "convertAggregate"}
QueryChecks == {"normalizeQuery", "convertQuery"}

\* The synchronous part of each operation, in the order of its statements,
\* up to Promise.all([getClient(), _ensureIndex(...)]) ("resolve").
\* update() normalizes the update and then calls findStream().
StepsResolveFirst(op) == <<"resolve", "normalizeQuery", "convertQuery">>
Steps(op) ==
    CASE op = "findStream" -> <<"normalizeQuery", "convertQuery", "newStream", "resolve">>
      [] op = "update" ->
            <<"normalizeUpdate", "normalizeQuery", "convertQuery", "newStream", "resolve">>
      [] op = "aggregateMulti" ->
            <<"normalizeQuery", "convertQuery", "normalizeAggregate", "convertAggregate",
              "resolve">>
      [] OTHER -> <<"normalizeQuery", "convertQuery", "resolve">>

\* The steps executed by a call whose input makes the steps in `bad` throw:
\* everything up to and including the first step that throws.
RunSync(op, bad) ==
    LET steps == Steps(op)
        throwing == {i \in 1..Len(steps) : steps[i] \in bad}
        last == IF throwing = {} THEN Len(steps)
                ELSE CHOOSE i \in throwing : \A j \in throwing : i <= j
    IN SubSeq(steps, 1, last)

Throws(op, bad) == \E i \in 1..Len(RunSync(op, bad)) : RunSync(op, bad)[i] \in bad

NoOp == [op |-> "none", input |-> {}, done |-> <<>>, pc |-> "idle", requests |-> 0]

\* A query operation is called: its synchronous part runs; if it throws the
\* call is over, otherwise it returns a promise (or a stream) and waits for
\* the client and the index.
OpCall(op, bad) ==
    /\ opc.pc = "idle"
    /\ opc' = [op |-> op, input |-> bad, done |-> RunSync(op, bad),
               pc |-> IF Throws(op, bad) THEN "thrown" ELSE "resolving",
               requests |-> 0]
    /\ UNCHANGED <<fs, mgr, tick, coreVars, docVars, libVars>>

\* Promise.all([getClient(), _ensureIndex(...)]) settles: the operation's
\* request is issued, or the operation is rejected.
OpResolved(ok) ==
    /\ opc.pc = "resolving"
    /\ opc' = IF ok THEN [opc EXCEPT !.pc = "request", !.requests = opc.requests + 1]
              ELSE [opc EXCEPT !.pc = "rejected"]
    /\ UNCHANGED <<fs, mgr, tick, coreVars, docVars, libVars>>

\* The engine answers the request.
OpRespond(ok) ==
    /\ opc.pc = "request"
    /\ opc' = [opc EXCEPT !.pc = IF ok THEN "resolved" ELSE "rejected"]
    /\ UNCHANGED <<fs, mgr, tick, coreVars, docVars, libVars>>

\* ------------------------------------------- ElasticsearchModel.findStream
DefaultScrollSize == 100

\* const limit = _.isNumber(options.limit) ? options.limit : -1
\* (options.limit is <<>> when absent, <<n>> when given).
Limit(opt) == IF opt = <<>> THEN -1 ELSE opt[1]

\* searchParams.size = options.scrollSize || 100 (0 stands for an absent option).
ScrollSize(opt) == IF opt = 0 THEN DefaultScrollSize ELSE opt

\* searchParams.searchType = searchParams.sort ? 'query_then_fetch' : 'scan'
SearchType(sorted) == IF sorted THEN "query_then_fetch" ELSE "scan"

NoStream ==
    [pc |-> "idle", limit |-> -1, size |-> 1, searchType |-> "scan", matched |-> 0,
     hasTotal |-> FALSE, listener |-> FALSE,
     isDone |-> FALSE, progress |-> 0, scrollId |-> FALSE,
     given |-> 0, pending |-> 0, emitted |-> 0, out |-> 0,
     requests |-> <<>>, totals |-> <<>>, err |-> "none", cause |-> "none",
     errors |-> <<>>, ended |-> 0, scrollIds |-> TRUE]

\* The hits of the next response of the engine: a scan answers the initial
\* search with no hits; otherwise up to `size` of the records not yet returned.
Batch(s) ==
    IF ~s.scrollId /\ s.searchType = "scan" THEN 0
    ELSE IF s.matched - s.given < s.size THEN s.matched - s.given ELSE s.size

\* The loop is over without an error: the chain goes on to docStream.end()
\* and no request is made for the scroll.
LoopOverCleared(s) == [s EXCEPT !.pc = "ending", !.requests = Append(s.requests, "clear")]
LoopOver(s) == [s EXCEPT !.pc = "ending"]

\* pasync.whilst(() => !isDone, ...): either the loop is over and the chain
\* goes on to docStream.end(), or the next request is issued: a scroll
\* continuation once a scroll id is known, the initial search before.
Iterate(s) ==
    IF s.isDone
    THEN LoopOver(s)
    ELSE [s EXCEPT !.pc = "request",
                   !.out = s.out + 1,
                   !.requests = Append(s.requests, IF s.scrollId THEN "scroll" ELSE "search")]

\* The .catch of the scroll loop: without a scroll id the error is passed on;
\* with one, clearScroll is requested first.
LoopFailed(s, err) ==
    IF ~s.scrollId
    THEN [s EXCEPT !.pc = "failed", !.err = err, !.cause = err]
    ELSE [s EXCEPT !.pc = "clearing", !.err = err, !.cause = err,
                   !.requests = Append(s.requests, "clear")]

\* findStream(query, options): normalizeQuery and convertQuery throw on a
\* malformed query; otherwise the Document Stream is created and returned and
\* the resolution of client and index is started.
FindStreamCall(bad, limit, scrollSize, sorted, matched, hasTotal, listener) ==
    /\ fs.pc = "idle"
    /\ fs' = IF Throws("findStream", bad)
             THEN [fs EXCEPT !.pc = "thrown"]
             ELSE [fs EXCEPT !.pc = "resolving",
                             !.limit = Limit(limit),
                             !.size = ScrollSize(scrollSize),
                             !.searchType = SearchType(sorted),
                             !.matched = matched,
                             !.hasTotal = hasTotal,
                             !.listener = listener]
    /\ UNCHANGED <<opc, mgr, tick, coreVars, docVars, libVars>>

\* Promise.all([getClient(), _ensureIndex(...)]) settles: the scroll loop
\* starts, or the rejection goes to the stream's error handler.
FsResolved(ok) ==
    /\ fs.pc = "resolving"
    /\ fs' = IF ok THEN Iterate(fs)
             ELSE [fs EXCEPT !.pc = "failed", !.err = "resolve", !.cause = "resolve"]
    /\ UNCHANGED <<opc, mgr, tick, coreVars, docVars, libVars>>

\* objtools.getPath(resp, 'hits.total') || 0 (<<>> when the path is absent).
OrZero(v) == IF v = <<>> THEN 0 ELSE v[1]

\* if (!scrollId) docStream.setTotal(...)
EveryResponse(s) == TRUE
FirstResponse(s) == ~s.scrollId

\* The writes of a batch have all been acknowledged.
BatchWritten(s) == TRUE
BatchAccepted(s) == s.pending = 0

\* .then(() => { isDone = limit > 0 && (progress >= limit); }) and the next
\* test of the loop.
AfterBatch(s) ==
    Iterate([s EXCEPT !.isDone = s.limit > 0 /\ s.progress >= s.limit])

\* The engine answers the outstanding search or scroll request;
\* scrollId = resp._scroll_id is what the response carries (fs.scrollIds: the
\* engine's responses carry one). Without a scroll the engine holds no
\* cursor, and a search answers with the first page.
FsRespond(ok) ==
    /\ fs.pc = "request"
    /\ Len(fs.requests) <= MaxFsRequests
    /\ LET s == [fs EXCEPT !.out = fs.out - 1]
           hits == Batch(fs)
           total == OrZero(IF fs.hasTotal THEN <<fs.matched>> ELSE <<>>)
           t == IF FirstResponse(fs) THEN [s EXCEPT !.totals = Append(s.totals, total)] ELSE s
           w == [t EXCEPT !.scrollId = fs.scrollIds,
                          !.given = IF fs.scrollIds THEN t.given + hits ELSE t.given,
                          !.pending = hits, !.pc = "writing"]
       IN fs' = IF ~ok THEN LoopFailed(s, IF fs.scrollId THEN "scroll" ELSE "search")
                ELSE IF ~FirstResponse(fs) /\ hits = 0
                     THEN Iterate([s EXCEPT !.isDone = TRUE])
                ELSE IF hits = 0 THEN AfterBatch(w)
                ELSE w
    /\ UNCHANGED <<opc, mgr, tick, coreVars, docVars, libVars>>

\* docStream.write(hit, cb) is accepted: _transform pushes the document and
\* the callback counts it; after the last one of the batch the loop goes on.
FsWriteAck ==
    /\ fs.pc = "writing"
    /\ fs.pending > 0
    /\ LET s == [fs EXCEPT !.pending = fs.pending - 1,
                           !.emitted = fs.emitted + 1,
                           !.progress = fs.progress + 1]
       IN fs' = IF BatchAccepted(s) THEN AfterBatch(s) ELSE s
    /\ UNCHANGED <<opc, mgr, tick, coreVars, docVars, libVars>>

\* client.clearScroll({ scrollId }).then(() => Promise.reject(err)): the
\* original error is passed on when the clear succeeds; when the clear is
\* rejected its own rejection is what the chain carries.
FsClearRespond(ok) ==
    /\ fs.pc = "clearing"
    /\ fs' = [fs EXCEPT !.pc = "failed", !.err = IF ok THEN fs.err ELSE "clear"]
    /\ UNCHANGED <<opc, mgr, tick, coreVars, docVars, libVars>>

\* emit('error', err) throws when the stream has no 'error' listener.
EmitThrowsAlways == TRUE
EmitThrows == ~fs.listener

\* .catch((err) => docStream.emit('error', err)): when emit throws, the
\* .then(() => docStream.end()) is skipped and pasync.abort is reached.
FsEmitError ==
    /\ fs.pc = "failed"
    /\ fs' = [fs EXCEPT !.errors = Append(fs.errors, fs.err),
                        !.pc = IF EmitThrows THEN "aborted" ELSE "ending"]
    /\ UNCHANGED <<opc, mgr, tick, coreVars, docVars, libVars>>

\* .then(() => docStream.end())
FsEnd ==
    /\ fs.pc = "ending"
    /\ fs' = [fs EXCEPT !.pc = "ended", !.ended = fs.ended + 1]
    /\ UNCHANGED <<opc, mgr, tick, coreVars, docVars, libVars>>

\* ------------------------------------------------ ElasticsearchHttpConnector

Encodings == {"", "gzip", "deflate"}

\* A requestStream call that has not been made.
NoRequest ==
    [pc |-> "none", body |-> FALSE, contentLength |-> FALSE, once |-> FALSE,
     cb |-> 0, cbErr |-> FALSE, cbStream |-> "none", thrown |-> FALSE,
     responded |-> FALSE, errored |-> FALSE, aborted |-> FALSE]

\* cleanUp = _.once((err, incoming) => ...): the first call reads
\* incoming.status for the trace line, which throws when incoming is
\* undefined, and only then calls cb; later calls do nothing.
CleanUp(r, err, incoming) ==
    IF r.once THEN r
    ELSE IF incoming = "undefined"
         THEN [r EXCEPT !.once = TRUE, !.thrown = TRUE]
         ELSE IF err
              THEN [r EXCEPT !.once = TRUE, !.cb = @ + 1, !.cbErr = TRUE]
              ELSE [r EXCEPT !.once = TRUE, !.cb = @ + 1, !.cbStream = incoming]

\* requestStream(params, cb): builds the request and ends it, with a
\* Content-Length header when params.body is set.
RequestStream(i, body) ==
    /\ http[i].pc = "none"
    /\ http' = [http EXCEPT ![i] = [@ EXCEPT !.pc = "sent", !.body = body,
                                             !.contentLength = body]]
    /\ UNCHANGED <<options, globCall, keysCall, queryCall, aggCall, schemaCall, coreVars, docVars, opVars>>

\* The response callback of hand.request: wraps the incoming message, pipes
\* it through an unzip stream for gzip and deflate, and calls cleanUp.
HttpResponse(i, encoding) ==
    /\ http[i].pc = "sent"
    /\ ~http[i].responded /\ ~http[i].errored /\ ~http[i].aborted
    /\ LET incoming == IF encoding \in {"gzip", "deflate"} THEN "unzip" ELSE "zstream"
       IN http' = [http EXCEPT ![i] = [CleanUp(@, FALSE, incoming)
                                           EXCEPT !.responded = TRUE]]
    /\ UNCHANGED <<options, globCall, keysCall, queryCall, aggCall, schemaCall, coreVars, docVars, opVars>>

\* request.on('error', cleanUp): the listener is called with the error alone.
HttpError(i) ==
    /\ http[i].pc = "sent"
    /\ ~http[i].errored
    /\ http' = [http EXCEPT ![i] = [CleanUp(@, TRUE, "undefined")
                                        EXCEPT !.errored = TRUE]]
    /\ UNCHANGED <<options, globCall, keysCall, queryCall, aggCall, schemaCall, coreVars, docVars, opVars>>

\* The function requestStream returns: request.abort().
HttpAbort(i) ==
    /\ http[i].pc = "sent"
    /\ ~http[i].aborted
    /\ http' = [http EXCEPT ![i] = [@ EXCEPT !.aborted = TRUE]]
    /\ UNCHANGED <<options, globCall, keysCall, queryCall, aggCall, schemaCall, coreVars, docVars, opVars>>

NoRequests == http = [i \in 1..MaxRequests |-> NoRequest]

\* options.sendMapping is documented to default to true; no code reads it.
DefaultOptions == options = [sendMapping |-> TRUE]

\* --------------------------------------------- ElasticsearchModel.getKeys
\* A schema is the list of its subschemas in traversal order, a path is a
\* position in it; the index flag is undefined, false, true or a mode name.
IndexFlags == {"undefined", "false", "true", "analyzed"}
Truthy(flag) == flag \notin {"undefined", "false"}
Subschemas == [key : BOOLEAN, index : IndexFlags]

\* traverseSchema collecting the paths whose subschema.key is set.
SubschemaKeys(schema) ==
    LET RECURSIVE Collect(_)
        Collect(i) == IF i > Len(schema) THEN <<>>
                      ELSE IF schema[i].key THEN <<i>> \o Collect(i + 1)
                      ELSE Collect(i + 1)
    IN Collect(1)

\* traverseSchema with "if (subschema.index && !indexKey) indexKey = path":
\* 0 stands for undefined.
IndexKeyLast(schema) ==
    LET RECURSIVE Visit(_, _)
        Visit(i, indexKey) ==
            IF i > Len(schema) THEN indexKey
            ELSE IF Truthy(schema[i].index)
                 THEN Visit(i + 1, i)
                 ELSE Visit(i + 1, indexKey)
    IN Visit(1, 0)
IndexKey(schema) ==
    LET RECURSIVE Visit(_, _)
        Visit(i, indexKey) ==
            IF i > Len(schema) THEN indexKey
            ELSE IF Truthy(schema[i].index) /\ indexKey = 0
                 THEN Visit(i + 1, i)
                 ELSE Visit(i + 1, indexKey)
    IN Visit(1, 0)

\* The keys getKeys() finds when none are cached: "undefined" when no source
\* yields any.
FindKeys(k) ==
    IF k.optionKeys # "undefined" THEN k.optionKeys
    ELSE IF Len(SubschemaKeys(k.schema)) # 0 THEN SubschemaKeys(k.schema)
    ELSE IF IndexKey(k.schema) # 0 THEN <<IndexKey(k.schema)>>
    ELSE "undefined"

\* getKeys(): the cached keys, or the keys found, cached; an INTERNAL_ERROR
\* is thrown when there are none.
GetKeys ==
    /\ keysCall.calls < MaxKeyCalls
    /\ LET keys == IF keysCall.keys # "null" THEN keysCall.keys ELSE FindKeys(keysCall)
       IN IF keys = "undefined"
          THEN keysCall' = [keysCall EXCEPT !.calls = @ + 1, !.ret = "none",
                                            !.thrown = "INTERNAL_ERROR"]
          ELSE keysCall' = [keysCall EXCEPT !.calls = @ + 1, !.ret = keys,
                                            !.keys = keys, !.thrown = "none"]
    /\ UNCHANGED <<http, options, globCall, queryCall, aggCall, schemaCall, coreVars, docVars, opVars>>

NoKeysCall ==
    keysCall = [optionKeys |-> "undefined", schema |-> <<>>, keys |-> "null",
                ret |-> "none", thrown |-> "none", calls |-> MaxKeyCalls]

\* ------------------------------------------------------------ convertQuery
\* A query with one key: an exact match of a field, or a $text operator
\* expression on it. The schema gives each of its fields an index flag.
QueryFields == {"name", "sex"}
QueryKeys == QueryFields \cup {"_parent", "nowhere"}
Exprs == {"exact", "$text"}
ExtraIndexSpecs == [field : QueryFields, index : {"true", "analyzed"}]

NoError == [kind |-> "none", message |-> "", field |-> ""]
QueryValidationError(message, field) ==
    [kind |-> "QueryValidationError", message |-> message, field |-> field]

\* getFieldIndexes(model, schema, field): the schema's index property unless
\* it is undefined, then the index of every extra index on the field; an
\* error is thrown when the schema has no such field.
GetFieldIndexes(q, field) ==
    IF field \notin DOMAIN q.schema
    THEN [error |-> QueryValidationError("Could not find field in schema", field),
          indexes |-> <<>>]
    ELSE LET defaultIndex == q.schema[field]
             RECURSIVE Extra(_)
             Extra(l) == IF l = <<>> THEN <<>>
                         ELSE IF Head(l).field = field
                              THEN <<Head(l).index>> \o Extra(Tail(l))
                              ELSE Extra(Tail(l))
         IN [error |-> NoError,
             indexes |-> (IF defaultIndex # "undefined" THEN <<defaultIndex>> ELSE <<>>)
                            \o Extra(q.extraIndexes)]

Contains(indexes, x) == \E i \in 1..Len(indexes) : indexes[i] = x

\* ensureExactMatchField: the error thrown, if any.
EnsureExactMatchField(q, field) ==
    IF field = "_parent" THEN NoError
    ELSE LET got == GetFieldIndexes(q, field)
         IN IF got.error # NoError THEN got.error
            ELSE IF Len(got.indexes) = 0
                 THEN QueryValidationError("Field is not indexed", field)
                 ELSE NoError

\* ensureTextMatchField: throws when the indexes contain 'analyzed'.
EnsureTextMatchField(q, field) ==
    LET got == GetFieldIndexes(q, field)
    IN IF got.error # NoError THEN got.error
       ELSE IF Contains(got.indexes, "analyzed")
            THEN QueryValidationError("Field is indexed for text match", field)
            ELSE NoError

\* convertQuery(query, model) for a query with the one key: the filter, or
\* the only error, thrown.
ConvertQuery ==
    /\ ~queryCall.done
    /\ LET q == queryCall
           thrown == IF q.expr = "$text" THEN EnsureTextMatchField(q, q.field)
                     ELSE EnsureExactMatchField(q, q.field)
       IN IF thrown # NoError
          THEN queryCall' = [q EXCEPT !.done = TRUE, !.error = thrown]
          ELSE queryCall' = [q EXCEPT !.done = TRUE,
                                !.filter = [kind |-> IF q.expr = "$text" THEN "match" ELSE "term",
                                            field |-> q.field]]
    /\ UNCHANGED <<http, options, globCall, keysCall, aggCall, schemaCall, coreVars, docVars, opVars>>

NoFilter == [kind |-> "none", field |-> ""]

NoQueryCall ==
    queryCall = [schema |-> <<>>, extraIndexes |-> <<>>, field |-> "", expr |-> "exact",
                 filter |-> NoFilter, error |-> NoError, done |-> TRUE]

\* -------------------------------------------------- convertAggregateResult
\* The engine's result is a tree of buckets, one level per groupBy entry; a
\* bucket is [key, doc_count, buckets]. A groupBy entry is a field group or
\* a range group. Keys are written as tuples: the engine's label of the
\* bucket at position i is <<"label", i>>, a positional index is <<"index", i>>.
GroupTypes == {"field", "range"}
Null == <<"null">>
Label(i) == <<"label", i>>

\* extractGroupKey(bucketResult, aggregate, groupByIdx, bucketIdx), with
\* groupByIdx counted from 1 (0 is the root's -1).
ExtractGroupKey(bucketResult, groupBy, groupByIdx, bucketIdx) ==
    IF groupByIdx < 1 \/ groupByIdx > Len(groupBy) THEN Null
    ELSE IF groupBy[groupByIdx] = "range" THEN <<"index", bucketIdx>>
    ELSE bucketResult.key

\* convertMetricResults with total: true.
ConvertMetricResults(metricResults, groupBy, groupByIdx, bucketIdx) ==
    [total |-> metricResults.doc_count,
     keys |-> <<ExtractGroupKey(metricResults, groupBy, groupByIdx, bucketIdx)>>]

\* group.keys.unshift(key) for every group.
Unshift(groups, key) ==
    [n \in 1..Len(groups) |-> [groups[n] EXCEPT !.keys = <<key>> \o @]]

\* convertBucketResults: [array, items], a node with no buckets giving the
\* one metric result, not in an array.
RECURSIVE ConvertBucketResults(_, _, _, _)
ConvertBucketResults(bucketResult, groupBy, groupByIdx, bucketIdx) ==
    LET buckets == bucketResult.buckets
        key == ExtractGroupKey(bucketResult, groupBy, groupByIdx, bucketIdx)
        RECURSIVE Loop(_)
        Loop(i) ==
            IF i > Len(buckets) THEN <<>>
            ELSE IF buckets[i].doc_count <= 0 THEN Loop(i + 1)
            ELSE LET groups == ConvertBucketResults(buckets[i], groupBy,
                                                    groupByIdx + 1, i - 1).items
                 IN (IF key # Null THEN Unshift(groups, key) ELSE groups) \o Loop(i + 1)
    IN IF Len(buckets) = 0
       THEN [array |-> FALSE,
             items |-> <<ConvertMetricResults(bucketResult, groupBy, groupByIdx, bucketIdx)>>]
       ELSE [array |-> TRUE, items |-> Loop(1)]

\* delete result.keys
Unkeyed(items) == [n \in 1..Len(items) |-> [items[n] EXCEPT !.keys = <<>>]]

\* convertAggregateResult(aggregateResult, aggregate): a result that is not
\* an array loses its keys.
ConvertAggregateResult ==
    /\ ~aggCall.done
    /\ LET result == ConvertBucketResults(aggCall.aggregateResult, aggCall.groupBy, 0, -1)
       IN aggCall' = [aggCall EXCEPT
                        !.done = TRUE,
                        !.result = IF result.array THEN result
                                   ELSE [result EXCEPT !.items = Unkeyed(@)]]
    /\ UNCHANGED <<http, options, globCall, keysCall, queryCall, schemaCall, coreVars, docVars, opVars>>

NoAggCall ==
    aggCall = [groupBy |-> <<>>, aggregateResult |-> <<>>,
               result |-> [array |-> TRUE, items |-> <<>>], done |-> TRUE]

\* ------------------------------------------------------------ convertSchema
\* One value field, "foo", with its type and index property, and the extra
\* indexes of the Model. A property that may be absent is Undefined or
\* Str(s).
Undefined == <<"undefined">>
Str(s) == <<"string", s>>

\* '' + value
StringOf(value) == IF value = Undefined THEN "undefined" ELSE value[2]

\* commonIndexToESIndex(commonIndex, type): Str("no"), Str("analyzed"),
\* Str("not_analyzed"), or Undefined for a truthy index of another type.
CommonIndexToESIndex(commonIndex, type) ==
    IF type = "string"
    THEN IF commonIndex \in {"true", "not_analyzed"} THEN Str("not_analyzed")
         ELSE IF commonIndex = "analyzed" THEN Str("analyzed")
         ELSE Str("no")
    ELSE IF Truthy(commonIndex) THEN Undefined
    ELSE Str("no")

\* findSubschemaSchemas(subschema, path, extraIndexes) for the path "foo":
\* the position of the extra index that became the default schema (0 for
\* the subschema itself), the extra schemas, and whether it threw.
FindSubschemaSchemas(c) ==
    LET RECURSIVE Scan(_, _)
        Scan(i, acc) ==
            IF i > Len(c.extraIndexes) \/ acc.error # "none" THEN acc
            ELSE LET extraIndex == c.extraIndexes[i]
                     extraSchema == [from |-> i, name |-> extraIndex.name,
                                     analyzer |-> extraIndex.analyzer,
                                     index |-> CommonIndexToESIndex(extraIndex.index, c.type)]
                 IN IF extraIndex.field # "foo" THEN Scan(i + 1, acc)
                    ELSE IF extraIndex.name = Undefined /\ c.index = "undefined"
                    THEN IF acc.default = 0
                         THEN Scan(i + 1, [acc EXCEPT !.default = i])
                         ELSE [acc EXCEPT !.error = "Multiple extra schemas"]
                    ELSE Scan(i + 1, [acc EXCEPT !.extraSchemas = Append(@, extraSchema)])
    IN Scan(1, [default |-> 0, extraSchemas |-> <<>>, error |-> "none"])

\* extraSchema.name || '' + extraSchema.analyzer || '' + extraSchema.index
MultiFieldName(extraSchema) ==
    IF extraSchema.name # Undefined /\ StringOf(extraSchema.name) # ""
    THEN StringOf(extraSchema.name)
    ELSE IF StringOf(extraSchema.analyzer) # ""
         THEN StringOf(extraSchema.analyzer)
         ELSE StringOf(extraSchema.index)

\* convertSubschema for the value field: mapping.fields, keyed by the name
\* of each extra schema, and the error of a name used twice.
ConvertSubschema(c) ==
    LET found == FindSubschemaSchemas(c)
        RECURSIVE Add(_, _)
        Add(i, acc) ==
            IF i > Len(found.extraSchemas) \/ acc.error # "none" THEN acc
            ELSE LET name == MultiFieldName(found.extraSchemas[i])
                 IN IF \E n \in 1..Len(acc.fields) : acc.fields[n].name = name
                    THEN [acc EXCEPT !.error = "multiple subfields with the same name"]
                    ELSE Add(i + 1, [acc EXCEPT !.fields =
                                        Append(@, [name |-> name,
                                                   from |-> found.extraSchemas[i].from,
                                                   index |-> found.extraSchemas[i].index])])
    IN Add(1, [default |-> found.default, fields |-> <<>>, error |-> found.error])

\* The index property of an extra index object, read back after
\* findSubschemaSchemas assigned commonIndexToESIndex's value to it.
AsFlag(value) == IF value = Undefined THEN "undefined" ELSE value[2]

\* extraIndex.index = commonIndexToESIndex(extraIndex.index, subschema.type):
\* the objects of the list handed to convertSchema after the call. Every
\* matching extra index is assigned, up to the one at which the call throws.
AssignedIndexes(c) ==
    LET RECURSIVE Scan(_, _, _)
        Scan(i, isDefault, acc) ==
            IF i > Len(c.extraIndexes) THEN acc
            ELSE LET extraIndex == c.extraIndexes[i]
                     assigned == [extraIndex EXCEPT !.index =
                                     AsFlag(CommonIndexToESIndex(extraIndex.index, c.type))]
                 IN IF extraIndex.field # "foo" THEN Scan(i + 1, isDefault, Append(acc, extraIndex))
                    ELSE IF extraIndex.name = Undefined /\ c.index = "undefined" /\ isDefault
                    THEN Append(acc, assigned) \o SubSeq(c.extraIndexes, i + 1, Len(c.extraIndexes))
                    ELSE Scan(i + 1,
                              isDefault \/ (extraIndex.name = Undefined /\ c.index = "undefined"),
                              Append(acc, assigned))
    IN Scan(1, FALSE, <<>>)

\* convertSchema(schema, extraIndexes): the schema data is a deep copy, the
\* extra indexes are the caller's objects.
ConvertSchema ==
    /\ ~schemaCall.done
    /\ schemaCall' = [schemaCall EXCEPT !.done = TRUE, !.result = ConvertSubschema(schemaCall),
                                        !.held = AssignedIndexes(schemaCall)]
    /\ UNCHANGED <<http, options, globCall, keysCall, queryCall, aggCall, coreVars, docVars, opVars>>

\* convertSchema(schema, extraIndexes) called again with the same schema and
\* the same list.
ConvertSchemaAgain ==
    /\ schemaCall.done
    /\ ~schemaCall.redone
    /\ LET c == [schemaCall EXCEPT !.extraIndexes = schemaCall.held]
       IN schemaCall' = [schemaCall EXCEPT !.redone = TRUE, !.again = ConvertSubschema(c),
                                           !.held = AssignedIndexes(c)]
    /\ UNCHANGED <<http, options, globCall, keysCall, queryCall, aggCall, coreVars, docVars, opVars>>

NoMapping == [default |-> 0, fields |-> <<>>, error |-> "none"]

NoSchemaCall ==
    schemaCall = [type |-> "string", index |-> "undefined", extraIndexes |-> <<>>,
                  result |-> NoMapping, done |-> TRUE,
                  held |-> <<>>, again |-> NoMapping, redone |-> TRUE]

NoLib ==
    /\ NoRequests /\ DefaultOptions /\ NoGlobCall /\ NoKeysCall /\ NoQueryCall /\ NoAggCall
    /\ NoSchemaCall

\* ------------------------------------------------------------ specifications
\* A Document just created, with nothing stored yet.
NewDoc ==
    /\ mappingOpts = [idPath |-> FALSE, parent |-> FALSE]
    /\ data = 1
    /\ fields = NoFields
    /\ originalData = <<>>
    /\ originalFields = <<>>
    /\ engine = {}
    /\ inflight = {}
    /\ docCalls = [c \in 1..MaxDocCalls |-> NoCall]
    /\ edits = 0
    /\ history = [indexed |-> "never", lastOk |-> "never", saved |-> FALSE]

\* No query operation has been called.
NoOps ==
    /\ fs = NoStream
    /\ opc = NoOp
    /\ mgr = NewManager(<<>>)
    /\ tick = [phase |-> "async", auto |-> FALSE, early |-> <<>>]

Init == InitConn /\ InitIndex /\ InitModel /\ NewDoc /\ NoOps /\ NoLib

\* The Connection on its own, with getClient() callers.
NextConn ==
    \/ ConnInitialize(MaxInit)
    \/ HealthRespond
    \/ \E k \in 1..MaxClientCalls : GetClientCall(k)
    \/ \E k \in 1..MaxClientCalls : GetClientSettled(k)

SpecConn == Init /\ [][NextConn]_vars

\* Connection, Index and Model together.
Next ==
    \/ ConnInitialize(MaxModelInit)
    \/ HealthRespond
    \/ IdxInitializeCall
    \/ IdxClientSettled
    \/ \E r \in {"absent", "present", "error"} : IdxExistsRespond(r)
    \/ \E ok \in BOOLEAN : IdxCreateRespond(ok)
    \/ \E ok \in BOOLEAN : IdxUpdateRespond(ok)
    \/ \E s \in Specs : ModelIndex(s)
    \/ \E c \in 1..MaxCalls, kind \in CallKinds : ModelCall(c, kind)
    \/ \E c \in 1..MaxCalls : ModelIndexSettled(c)
    \/ PushIndexSettled
    \/ PushConnSettled
    \/ \E ok \in BOOLEAN : PushRespond(ok)
    \/ \E c \in 1..MaxCalls : ModelMappingSettled(c)
    \/ \E c \in 1..MaxCalls : ModelConnSettled(c)

Spec == Init /\ [][Next]_vars

\* A Connection and one Index, with addMapping called on the Index at any
\* moment of their initialization.
NextIndex ==
    \/ ConnInitialize(MaxModelInit)
    \/ HealthRespond
    \/ IndexConstruct
    \/ IdxInitializeCall
    \/ IdxClientSettled
    \/ \E r \in {"absent", "present", "error"} : IdxExistsRespond(r)
    \/ \E ok \in BOOLEAN : IdxCreateRespond(ok)
    \/ \E ok \in BOOLEAN : IdxUpdateRespond(ok)
    \/ AddMappingCall
    \/ PushIndexSettled
    \/ PushConnSettled
    \/ \E ok \in BOOLEAN : PushRespond(ok)

SpecIndex == Init /\ [][NextIndex]_vars

\* A Model constructed on a Connection and Index in any state, the code
\* that runs synchronously after the constructor, and what follows.
InitTick ==
    /\ InitConn /\ InitIndex /\ InitModel /\ NewDoc
    /\ fs = NoStream
    /\ opc = NoOp
    /\ mgr = NewManager(<<>>)
    /\ tick = [phase |-> "before", auto |-> FALSE, early |-> <<>>]
    /\ NoLib

NextTick ==
    \/ tick.phase = "before" /\ ConnInitialize(MaxModelInit)
    \/ CallbacksRun /\ HealthRespond
    \/ tick.phase = "before" /\ IndexConstruct
    \/ CallbacksRun /\ IdxClientSettled
    \/ CallbacksRun /\ \E r \in {"absent", "present", "error"} : IdxExistsRespond(r)
    \/ CallbacksRun /\ \E ok \in BOOLEAN : IdxCreateRespond(ok)
    \/ CallbacksRun /\ \E ok \in BOOLEAN : IdxUpdateRespond(ok)
    \/ \E initialize \in BOOLEAN : ModelConstruct(initialize)
    \/ tick.phase = "sync" /\ \E s \in Specs : ModelIndex(s)
    \/ tick.phase = "sync" /\ \E c \in 1..MaxCalls, kind \in CallKinds : ModelCall(c, kind)
    \/ TickEnds
    \/ AutoInitialize
    \/ CallbacksRun /\ \E c \in 1..MaxCalls : ModelIndexSettled(c)
    \/ CallbacksRun /\ PushIndexSettled
    \/ CallbacksRun /\ PushConnSettled
    \/ CallbacksRun /\ \E ok \in BOOLEAN : PushRespond(ok)
    \/ CallbacksRun /\ \E c \in 1..MaxCalls : ModelMappingSettled(c)
    \/ CallbacksRun /\ \E c \in 1..MaxCalls : ModelConnSettled(c)

SpecTick == InitTick /\ [][NextTick]_vars

\* One Document, its save() and remove() calls, and the engine.
NextDoc ==
    \/ \E f \in {"id", "routing", "parent"}, v \in 0..MaxId : DocSet(f, v)
    \/ \E c \in 1..MaxDocCalls, valid \in BOOLEAN : SaveCall(c, valid)
    \/ \E c \in 1..MaxDocCalls, ok \in BOOLEAN : SaveMapping(c, ok)
    \/ \E c \in 1..MaxDocCalls, ok \in BOOLEAN : SaveClient(c, ok)
    \/ \E c \in 1..MaxDocCalls, ok \in BOOLEAN : SavePurged(c, ok)
    \/ \E c \in 1..MaxDocCalls, ok \in BOOLEAN, echo \in BOOLEAN : SaveIndexed(c, ok, echo)
    \/ \E c \in 1..MaxDocCalls, ok \in BOOLEAN : SavePostSave(c, ok)
    \/ \E c \in 1..MaxDocCalls : RemoveCall(c)
    \/ \E c \in 1..MaxDocCalls, ok \in BOOLEAN : RemoveMapping(c, ok)
    \/ \E c \in 1..MaxDocCalls, ok \in BOOLEAN : RemoveClient(c, ok)
    \/ \E c \in 1..MaxDocCalls, ok \in BOOLEAN : RemoveDeleted(c, ok)
    \/ \E c \in 1..MaxDocCalls, ok \in BOOLEAN : RemovePost(c, ok)

InitDocs ==
    InitConn /\ resetAlways /\ InitIndex /\ indexOptions /\ InitModel /\ InitDoc /\ NoOps /\ NoLib

SpecDoc == InitDocs /\ [][NextDoc]_vars

\* One findStream call of a Model, with the engine answering its requests
\* and the consumer accepting the documents written to the stream.
NextStream ==
    \/ \E bad \in SUBSET QueryChecks, sorted, hasTotal, listener \in BOOLEAN,
          limit \in {<<>>} \cup {<<n>> : n \in 0..MaxLimit},
          scrollSize \in 0..MaxScroll, matched \in 0..MaxHits :
          FindStreamCall(bad, limit, scrollSize, sorted, matched, hasTotal, listener)
    \/ \E ok \in BOOLEAN : FsResolved(ok)
    \/ \E ok \in BOOLEAN : FsRespond(ok)
    \/ FsWriteAck
    \/ \E ok \in BOOLEAN : FsClearRespond(ok)
    \/ FsEmitError
    \/ FsEnd

\* One findStream call against an engine whose responses carry a scroll id,
\* or against one whose responses carry none.
InitScroll ==
    /\ InitConn /\ resetAlways /\ InitIndex /\ indexOptions /\ InitModel /\ NewDoc /\ NoLib
    /\ fs \in {[NoStream EXCEPT !.scrollIds = b] : b \in BOOLEAN}
    /\ opc = NoOp
    /\ mgr = NewManager(<<>>)
    /\ tick = [phase |-> "async", auto |-> FALSE, early |-> <<>>]

SpecScroll == InitScroll /\ [][NextStream]_vars

\* Connection, Index and Model as constructed, with nothing called.
Quiet ==
    InitConn /\ resetAlways /\ InitIndex /\ indexOptions /\ InitModel /\ NewDoc /\ NoOps

InitOps == Quiet /\ NoLib

SpecStream == InitOps /\ [][NextStream]_vars

\* An Index Manager asked for several names while its glob table may be
\* replaced.
InitManager ==
    /\ InitConn /\ resetAlways /\ InitIndex /\ indexOptions /\ InitModel /\ NewDoc
    /\ fs = NoStream
    /\ opc = NoOp
    /\ \E configs \in ConfigTables : mgr = NewManager(configs)
    /\ tick = [phase |-> "async", auto |-> FALSE, early |-> <<>>]
    /\ NoLib

NextManager ==
    \/ \E name \in Names : GetIndex(name)
    \/ \E o \in 1..MaxGetIndex, ok \in BOOLEAN : ManagedIndexSettles(o, ok)
    \/ \E configs \in ConfigTables : SetIndexConfigs(configs)

SpecManager == InitManager /\ [][NextManager]_vars

\* One call of a query operation of a Model.
NextOps ==
    \/ \E op \in Ops, bad \in SUBSET Checks : OpCall(op, bad)
    \/ \E ok \in BOOLEAN : OpResolved(ok)
    \/ \E ok \in BOOLEAN : OpRespond(ok)

SpecOps == InitOps /\ [][NextOps]_vars

\* The same, with every request answered and every write accepted.
SpecStreamFair == SpecStream /\ WF_vars(NextStream)

\* Several requestStream calls on one connector and what node's http request
\* does to each: a response, an error, or both, before or after an abort.
NextHttp ==
    \/ \E i \in 1..MaxRequests, body \in BOOLEAN : RequestStream(i, body)
    \/ \E i \in 1..MaxRequests, encoding \in Encodings : HttpResponse(i, encoding)
    \/ \E i \in 1..MaxRequests : HttpError(i)
    \/ \E i \in 1..MaxRequests : HttpAbort(i)

\* A Model constructed with sendMapping: false, under the operations of Spec.
InitSendMapping ==
    /\ InitConn /\ InitIndex /\ InitModel /\ NewDoc /\ NoOps /\ NoRequests /\ NoGlobCall /\ NoKeysCall /\ NoQueryCall /\ NoAggCall
    /\ NoSchemaCall
    /\ options = [sendMapping |-> FALSE]

SpecSendMapping == InitSendMapping /\ [][Next]_vars

\* elasticsearchGlobFilter applied to a glob and a list of strings.
InitGlob ==
    /\ Quiet /\ NoRequests /\ DefaultOptions /\ NoKeysCall /\ NoQueryCall /\ NoAggCall
    /\ NoSchemaCall
    /\ \E glob \in GlobInputs, strings \in Lists(StringInputs, MaxStrings) :
          globCall = [glob |-> glob, strings |-> strings, ret |-> <<>>, done |-> FALSE]

NextGlob == GlobFilterCall

SpecGlob == InitGlob /\ [][NextGlob]_vars

\* getKeys() called on a Model with any keys option and any schema.
OptionKeys == {"undefined", <<>>, <<1>>, <<2, 1>>}

InitKeys ==
    /\ Quiet /\ NoRequests /\ DefaultOptions /\ NoGlobCall /\ NoQueryCall /\ NoAggCall
    /\ NoSchemaCall
    /\ \E optionKeys \in OptionKeys, schema \in Lists(Subschemas, MaxFields) :
          keysCall = [optionKeys |-> optionKeys, schema |-> schema, keys |-> "null",
                      ret |-> "none", thrown |-> "none", calls |-> 0]

NextKeys == GetKeys

SpecKeys == InitKeys /\ [][NextKeys]_vars

\* convertQuery applied to a one-key query on a Model with any schema flags
\* and extra indexes.
InitQuery ==
    /\ Quiet /\ NoRequests /\ DefaultOptions /\ NoGlobCall /\ NoKeysCall /\ NoAggCall
    /\ NoSchemaCall
    /\ \E schema \in [QueryFields -> IndexFlags],
          extras \in Lists(ExtraIndexSpecs, MaxExtraIndexes),
          field \in QueryKeys, expr \in Exprs :
          queryCall = [schema |-> schema, extraIndexes |-> extras, field |-> field,
                       expr |-> expr, filter |-> NoFilter, error |-> NoError, done |-> FALSE]

NextQuery == ConvertQuery

SpecQuery == InitQuery /\ [][NextQuery]_vars

\* convertAggregateResult applied to the engine's result of an aggregate with
\* one or two groupBy entries. A bucket with no documents has no sub-bucket
\* with documents; the label of a bucket is that of its position.
CountLists == Lists({0, 1}, MaxBuckets)
Leaves(counts) ==
    [i \in 1..Len(counts) |-> [key |-> Label(i - 1), doc_count |-> counts[i], buckets |-> <<>>]]
Inner == {b \in [doc_count : {0, 1}, counts : CountLists] :
            b.doc_count = 0 => \A i \in 1..Len(b.counts) : b.counts[i] = 0}
Branches(inners) ==
    [i \in 1..Len(inners) |-> [key |-> Label(i - 1), doc_count |-> inners[i].doc_count,
                                buckets |-> Leaves(inners[i].counts)]]
Root(buckets) == [key |-> Null, doc_count |-> 1, buckets |-> buckets]

InitAggregate ==
    /\ Quiet /\ NoRequests /\ DefaultOptions /\ NoGlobCall /\ NoKeysCall /\ NoQueryCall
    /\ NoSchemaCall
    /\ \/ \E g \in GroupTypes, counts \in CountLists :
             aggCall = [groupBy |-> <<g>>, aggregateResult |-> Root(Leaves(counts)),
                        result |-> [array |-> TRUE, items |-> <<>>], done |-> FALSE]
       \/ \E g \in GroupTypes, h \in GroupTypes, inners \in Lists(Inner, MaxBuckets) :
             aggCall = [groupBy |-> <<g, h>>, aggregateResult |-> Root(Branches(inners)),
                        result |-> [array |-> TRUE, items |-> <<>>], done |-> FALSE]

NextAggregate == ConvertAggregateResult

SpecAggregate == InitAggregate /\ [][NextAggregate]_vars

\* convertSchema applied to a schema with the field "foo" and to any list of
\* extra indexes.
SchemaExtras ==
    [field : {"foo", "ignored"}, index : {"true", "analyzed"},
     name : {Undefined, Str("named")}, analyzer : {Undefined, Str("standard")}]

InitSchema ==
    /\ Quiet /\ NoRequests /\ DefaultOptions /\ NoGlobCall /\ NoKeysCall /\ NoQueryCall
    /\ NoAggCall
    /\ \E type \in {"string", "number"}, index \in IndexFlags,
          extras \in Lists(SchemaExtras, MaxSchemaExtras) :
          schemaCall = [type |-> type, index |-> index, extraIndexes |-> extras,
                        result |-> NoMapping, done |-> FALSE,
                        held |-> extras, again |-> NoMapping, redone |-> FALSE]

NextSchema == ConvertSchema \/ ConvertSchemaAgain

SpecSchema == InitSchema /\ [][NextSchema]_vars

\* One Document read from a hit with its routing, and save() calls made
\* while the save() before them is still running: save() takes no lock and
\* returns its promise at once.
CanStartOverlapping(c) ==
    /\ docCalls[c].pc = "idle"
    /\ \A j \in 1..(c - 1) : docCalls[j].pc # "idle"
    /\ c > 1 => Active(docCalls[c - 1])

\* A field is changed between the first save() call and the second.
BetweenSaves == docCalls[1].pc # "idle" /\ docCalls[2].pc = "idle"

SaveOverlapping(c) ==
    /\ CanStartOverlapping(c)
    /\ docCalls' = Started(c, [NoCall EXCEPT !.op = "save", !.pc = "mapping"])
    /\ UNCHANGED <<mappingOpts, data, fields, originalData, originalFields, engine,
                   inflight, edits, history, coreVars, opVars, libVars>>

HitDoc ==
    /\ mappingOpts = [idPath |-> FALSE, parent |-> FALSE]
    /\ data = 1
    /\ inflight = {}
    /\ docCalls = [c \in 1..MaxDocCalls |-> NoCall]
    /\ edits = 0
    /\ fields = [id |-> 1, index |-> 1, parent |-> 0, routing |-> 2]
    /\ originalData = <<data>>
    /\ originalFields = <<fields>>
    /\ engine = {[id |-> 1, shard |-> Shard(1, 2, 0), parent |-> 0, body |-> data]}
    /\ history = [indexed |-> "hit", lastOk |-> "hit", saved |-> FALSE]

InitOverlap ==
    InitConn /\ resetAlways /\ InitIndex /\ indexOptions /\ InitModel /\ HitDoc /\ NoOps /\ NoLib

NextOverlap ==
    \/ BetweenSaves /\ \E v \in 1..MaxId : DocSet("routing", v)
    \/ \E c \in 1..MaxDocCalls : SaveOverlapping(c)
    \/ \E c \in 1..MaxDocCalls, ok \in BOOLEAN : SaveMapping(c, ok)
    \/ \E c \in 1..MaxDocCalls, ok \in BOOLEAN : SaveClient(c, ok)
    \/ \E c \in 1..MaxDocCalls, ok \in BOOLEAN : SavePurged(c, ok)
    \/ \E c \in 1..MaxDocCalls, ok \in BOOLEAN, echo \in BOOLEAN : SaveIndexed(c, ok, echo)
    \/ \E c \in 1..MaxDocCalls, ok \in BOOLEAN : SavePostSave(c, ok)

SpecOverlap == InitOverlap /\ [][NextOverlap]_vars

InitHttp == Quiet /\ NoLib

SpecHttp == InitHttp /\ [][NextHttp]_vars

\* ------------------------------------------------------------------ claims

\* C1: for one Model and one index name at most one put-mapping request is
\* ever issued, however many initialize(), getClient() and getMapping() calls
\* overlap, and every caller that got past the mapping observed the outcome
\* of that one cached push.
C1_SinglePush ==
    /\ Len(putMappings) <= 1
    /\ \A c \in 1..MaxCalls :
          /\ calls[c].pc = "awaitMapping" => indexMappingPromises
          /\ calls[c].seen # "none" => calls[c].seen = push.pc

\* Two callers overlap on the push while its single request is in flight.
C1_Witness ==
    /\ calls[1].pc = "awaitMapping"
    /\ calls[2].pc = "awaitMapping"
    /\ push.pc = "inflight"
    /\ Len(putMappings) = 1

\* C2: once a mapping push is cached for the Model, every index(field, spec)
\* call fails with an internal error and extraIndexes never changes again.
C2_ExtraIndexesFrozen ==
    [][indexMappingPromises =>
          /\ extraIndexes' = extraIndexes
          /\ (indexCalls' # indexCalls => indexResult' = "INTERNAL_ERROR")]_vars

\* index() was called after a push began, and was refused.
C2_Witness ==
    /\ indexMappingPromises
    /\ indexResult = "INTERNAL_ERROR"
    /\ indexCalls >= 1

\* C3: however often initialize() is called on an Index, the existence check
\* (and so the create-or-update sequence) is issued at most once and
\* "connected" is emitted at most once.
C3_InitializeOnce ==
    /\ idxStats.exists <= 1
    /\ idxStats.connected <= 1

\* initialize() was called again on an Index that became ready.
C3_Witness ==
    /\ idxStats.initCalls >= 2
    /\ idxStats.connected = 1
    /\ idxPc.at = "ready"

C5_OwnHealthCheck ==
    \A s \in settles : s.first => s.by = s.cycle

\* C6: a getClient() call made while an initialization is in progress resolves
\* only after the health check of that initialization succeeded, and with the
\* client that initialization built.
C6_ClientOfCycle ==
    \A k \in 1..MaxClientCalls :
        (clientCalls[k].pc = "done" /\ clientCalls[k].busy) =>
            /\ clientCalls[k].result = clientCalls[k].cycle
            /\ \E s \in settles : s.by = clientCalls[k].cycle /\ s.ok

\* C7: in a save() that needs a purge, the index request is in flight only
\* after the delete at the original coordinates has answered successfully,
\* and the delete and the index request of one save() are never in flight
\* together.
C7_PurgeBeforeIndex ==
    \A r \in inflight :
        r.kind = "index" =>
            /\ docCalls[r.call].purge \in {"none", "ok"}
            /\ Differs(docCalls[r.call].old, docCalls[r.call].req)
                  => docCalls[r.call].purge = "ok"
            /\ ~\E d \in inflight : d.call = r.call /\ d.kind = "delete"

\* C7 case: an index request is in flight behind a purge that succeeded, and
\* the copy at the original coordinates is gone.
C7_Witness ==
    \E r \in inflight :
        /\ r.kind = "index"
        /\ docCalls[r.call].purge = "ok"
        /\ docCalls[r.call].old # <<>>
        /\ ~EngineHas(engine, docCalls[r.call].old[1].id, docCalls[r.call].old[1].routing,
                      docCalls[r.call].old[1].parent)

\* C8: when a save() resolves on a Document that was saved
\* before and whose routing differs from the routing of its snapshot (no
\* copy having been stored with a parent under a mapping without _parent),
\* the engine holds exactly one copy of the record, on the shard of the new
\* routing, and none under the old id.
C8_OneCopyAtNewRouting ==
    [][\A c \in 1..MaxDocCalls :
        (/\ docCalls[c].pc = "postSave" /\ docCalls'[c].pc = "done"
         /\ history.saved
         /\ docCalls[c].old # <<>>
         /\ docCalls[c].old[1].routing # docCalls[c].req.routing
         /\ \A x \in engine : x.parent # 0 => mappingOpts.parent)
        => /\ Copies(engine', fields'.id) # {}
           /\ \A x \in engine' :
                x.id \in {fields'.id, docCalls[c].old[1].id}
                => /\ x.id = fields'.id
                   /\ x.shard = Shard(fields'.id, docCalls[c].req.routing,
                                      docCalls[c].req.parent)]_vars

Quiescent == \A c \in 1..MaxDocCalls : ~Active(docCalls[c])

\* C9: the original data and the original fields are null together; they are
\* null from construction of a fresh Document until an index request of a
\* save() succeeds and from the clearing step of a successful remove() until
\* the next index request succeeds, and non-null otherwise (a hit, or the
\* last such event was a successful index response).
C9_OriginalsNull ==
    /\ (originalData = <<>>) <=> (originalFields = <<>>)
    /\ (originalData = <<>>) <=> (history.indexed \in {"never", "removed"})

\* C9 case: a Document was saved, then removed, and its snapshot is null again.
C9_Witness ==
    /\ history.saved
    /\ history.indexed = "removed"
    /\ history.lastOk = "remove"
    /\ originalData = <<>>
    /\ originalFields = <<>>

\* C9 as stated: with no call running, the snapshot is null exactly when no
\* save() has resolved yet on a fresh Document or the last call that resolved
\* was a remove().
C9_NullUntilSaved ==
    /\ (originalData = <<>>) <=> (originalFields = <<>>)
    /\ Quiescent => ((originalData = <<>>) <=> (history.lastOk \in {"never", "remove"}))

\* C10: remove() on a Document whose original snapshot is null fails at once
\* with the database error "did not originally exist" and sends no request.
C10_RemoveRefused ==
    [][\A c \in 1..MaxDocCalls :
        (/\ docCalls[c].pc = "idle" /\ docCalls'[c].op = "remove"
         /\ (originalData = <<>> \/ originalFields = <<>>))
        => /\ docCalls'[c].pc = "failed"
           /\ docCalls'[c].err = "DB_ERROR: did not originally exist"
           /\ inflight' = inflight
           /\ engine' = engine]_vars

\* C10 case: one remove() resolved and a later remove() on the same Document
\* was refused with that error.
C10_Witness ==
    \E c, d \in 1..MaxDocCalls :
        /\ d < c
        /\ docCalls[d].op = "remove" /\ docCalls[d].pc = "done"
        /\ docCalls[c].op = "remove" /\ docCalls[c].pc = "failed"
        /\ docCalls[c].err = "DB_ERROR: did not originally exist"

\* C11: findStream called with options.limit = N against a query matching
\* more than N records emits exactly N documents and then ends, whatever the
\* scrollSize (the engine answering every request without error).
C11_ExactlyLimit ==
    (/\ fs.pc = "ended"
     /\ fs.cause = "none"
     /\ fs.limit >= 1
     /\ fs.matched > fs.limit) => fs.emitted = fs.limit

\* C12: a scroll-continuation request is issued only after every hit of the
\* previous batch has been written to the Document Stream and its write
\* acknowledged, and at most one search or scroll request of a findStream
\* call is outstanding at any time.
C12_NoPipelining ==
    /\ [](fs.out <= 1)
    /\ [][(/\ Len(fs'.requests) > Len(fs.requests)
           /\ fs'.requests[Len(fs'.requests)] = "scroll")
          => /\ fs'.out = 1
             /\ fs'.pending = 0
             /\ fs'.progress = fs'.given]_vars

\* A scroll continuation is outstanding after a batch of two hits was written.
C12_Witness ==
    /\ fs.pc = "request"
    /\ fs.requests = <<"search", "scroll">>
    /\ fs.size = 2
    /\ fs.progress = 2

C16_ThrownBeforeResolution ==
    (opc.op # "none" /\ opc.input \cap QueryChecks # {}) =>
          /\ opc.pc = "thrown"
          /\ opc.requests = 0
          /\ \A i \in 1..Len(opc.done) : opc.done[i] # "resolve"

\* update() was called with a well-formed update and a query that fails
\* conversion.
C16_Witness ==
    /\ opc.op = "update"
    /\ opc.input = {"convertQuery"}
    /\ opc.pc = "thrown"
    /\ opc.done = <<"normalizeUpdate", "normalizeQuery", "convertQuery">>

\* C17: for any sequence of getIndex(name) calls on one Index Manager,
\* overlapping ones included, at most one Index object is ever constructed
\* for a given name, and every successful call resolves with that object.
C17_OneIndexPerName ==
    /\ \A i, j \in 1..Len(mgr.objects) :
          mgr.objects[i].name = mgr.objects[j].name => i = j
    /\ \A i, j \in 1..Len(mgr.calls) :
          (/\ mgr.calls[i].name = mgr.calls[j].name
           /\ mgr.calls[i].result # 0
           /\ mgr.calls[j].result # 0) => mgr.calls[i].result = mgr.calls[j].result
    /\ \A i \in 1..Len(mgr.calls) :
          mgr.calls[i].result # 0 =>
              /\ mgr.objects[mgr.calls[i].result].name = mgr.calls[i].name
              /\ mgr.indexMap[mgr.calls[i].name] = mgr.calls[i].result

\* Three calls for one name overlap while its Index is not ready yet.
C17_Witness ==
    /\ Len(mgr.calls) = 3
    /\ \A i \in 1..3 : mgr.calls[i].name = <<"b", "a">> /\ mgr.calls[i].result = 1
    /\ mgr.objects[1].waiter = "pending"

\* C18: a getIndex(name) call made while the name is not cached and no glob
\* of the table matches fails with a database error and constructs and
\* caches no Index; every later getIndex(name) fails the same way for as
\* long as the glob table has not been replaced.
C18_NoConfigFails ==
    /\ [][\A n \in Names :
            (/\ Len(mgr'.calls) = Len(mgr.calls) + 1
             /\ mgr'.calls[Len(mgr'.calls)].name = n
             /\ mgr.indexMap[n] = 0
             /\ \A g \in 1..Len(mgr.indexConfigs) : ~GlobMatches(mgr.indexConfigs[g], n))
            => /\ mgr'.calls[Len(mgr'.calls)].result = 0
               /\ mgr'.indexMap = mgr.indexMap
               /\ mgr'.objects = mgr.objects]_vars
    /\ [](\A i, j \in 1..Len(mgr.calls) :
            (/\ i < j
             /\ mgr.calls[i].name = mgr.calls[j].name
             /\ mgr.calls[i].sets = mgr.calls[j].sets
             /\ mgr.calls[i].result = 0) => mgr.calls[j].result = 0)

\* getIndex failed twice for a name that no glob of the table matches.
C18_Witness ==
    /\ Len(mgr.calls) >= 2
    /\ mgr.calls[1] = [name |-> <<"c">>, result |-> 0, sets |-> 0]
    /\ mgr.calls[2] = [name |-> <<"c">>, result |-> 0, sets |-> 0]
    /\ mgr.indexConfigs # <<>>
    /\ mgr.indexMap[<<"c">>] = 0

\* C18 as stated: once getIndex(name) has failed for want of a matching
\* glob, every later getIndex(name) on that Index Manager fails.
C18_PermanentFailure ==
    \A i, j \in 1..Len(mgr.calls) :
        (/\ i < j
         /\ mgr.calls[i].name = mgr.calls[j].name
         /\ mgr.calls[i].result = 0) => mgr.calls[j].result = 0

\* C19: addMapping issues its put-mapping request only after the Index's
\* readiness promise, and after that the Connection's readiness promise, have
\* resolved; if the Index's initialization fails, addMapping rejects and no
\* put-mapping request is issued.
C19_AddMappingWaits ==
    /\ [][Len(putMappings') > Len(putMappings) =>
            /\ push.pc = "awaitConn"
            /\ promises[push.wait] = "resolved"
            /\ connEvents.connected >= 1
            /\ initialized
            /\ idxOutcome = <<"resolved">>
            /\ promises[indexWaiter.promise] = "resolved"]_vars
    /\ [][(push.pc = "awaitIndex" /\ push'.pc # "awaitIndex") =>
            IF promises[push.wait] = "rejected"
            THEN push'.pc = "failed" /\ putMappings' = putMappings
            ELSE push'.pc = "awaitConn" /\ initialized]_vars
    /\ [](push.pc = "failed" => (putMappings = <<>> \/ idxOutcome = <<"resolved">>))
    /\ [](idxOutcome = <<"rejected">> => putMappings = <<>>)

\* addMapping was called before the Index was ready, waited, and its
\* put-mapping request is now in flight.
C19_Witness ==
    /\ push.pc = "inflight"
    /\ Len(putMappings) = 1
    /\ ~indexOptions
    /\ idxStats.initCalls >= 1
    /\ idxOutcome = <<"resolved">>

\* C20: with default options no mapping push is started while the code that
\* constructed the Model is still running: every index() call made
\* synchronously after construction succeeds, and the mapping pushed later
\* (by the automatic initialization or an earlier caller) contains all of
\* those extra indexes.
C20_DeferredInitialize ==
    /\ [](tick.phase = "sync" => ~indexMappingPromises /\ putMappings = <<>>)
    /\ [][(tick.phase = "sync" /\ indexCalls' # indexCalls) =>
            /\ indexResult' = "ok"
            /\ extraIndexes' # extraIndexes]_vars
    /\ [](tick.phase = "async" =>
            /\ mapping # <<"none">> => SubSeq(mapping, 1, Len(tick.early)) = tick.early
            /\ \A i \in 1..Len(putMappings) :
                  SubSeq(putMappings[i], 1, Len(tick.early)) = tick.early)

\* index() was called in the code that constructed the Model, and the
\* automatic initialization then ran and a mapping with that extra index was
\* pushed.
C20_Witness ==
    /\ tick.phase = "async"
    /\ tick.auto
    /\ tick.early # <<>>
    /\ \E c \in 1..MaxCalls : calls[c].kind = "autoInitialize"
    /\ Len(putMappings) = 1
    /\ putMappings[1] = tick.early

\* C21: if the purge delete fails during save(), save() rejects with that
\* failure, no index request is issued, and the Document's original snapshot
\* is left unchanged.
C21_PurgeFailure ==
    /\ [](\A c \in 1..MaxDocCalls :
            docCalls[c].pc = "purging" =>
                /\ originalFields = docCalls[c].old
                /\ ~\E r \in inflight : r.call = c /\ r.kind = "index")
    /\ [][\A c \in 1..MaxDocCalls :
            (docCalls[c].pc = "purging" /\ docCalls'[c].pc = "failed") =>
                /\ docCalls'[c].err = "purge"
                /\ ~\E r \in inflight' : r.call = c
                /\ originalData' = originalData
                /\ originalFields' = originalFields
                /\ engine' = engine]_vars

\* A save() of a Document whose routing was changed was rejected by the
\* failure of its purge.
C21_Witness ==
    \E c \in 1..MaxDocCalls :
        /\ docCalls[c].op = "save"
        /\ docCalls[c].pc = "failed"
        /\ docCalls[c].err = "purge"
        /\ originalFields # <<>>
        /\ Differs(originalFields, fields)
        /\ inflight = {}

\* C22: every requestStream call invokes its callback exactly once, with the
\* response stream or with an error: never twice, and never left uninvoked
\* once the request has been answered or has failed.
C22_CallbackExactlyOnce ==
    \A i \in 1..MaxRequests :
        /\ http[i].cb <= 1
        /\ (http[i].responded \/ http[i].errored) => http[i].cb = 1

\* C23: a Model constructed with sendMapping: false never issues a
\* put-mapping request, whatever operations are called on it.
C23_NoMappingSent ==
    ~options.sendMapping => putMappings = <<>>

\* C24: elasticsearchGlobFilter returns the names selected by the glob's
\* wildcard and comma alternatives: 'foo*' on [foobar, baz] gives [foobar],
\* and 'bar,baz' on [foobar, baz, qux] gives [baz].
C24_GlobFilter ==
    globCall.done =>
        /\ (globCall.glob = FooStar /\ globCall.strings = <<Foobar, Baz>>
                => globCall.ret = <<Foobar>>)
        /\ (globCall.glob = BarCommaBaz /\ globCall.strings = <<Foobar, Baz, Qux>>
                => globCall.ret = <<Baz>>)

\* C25: getKeys() resolves keys with strict precedence: the explicit keys
\* option if given; else every key-flagged schema path in traversal order;
\* else the single first schema path with a truthy index flag; else it fails
\* with an internal error. A lower source is never used when a higher one
\* yields keys.
C25_KeyPrecedence ==
    LET k == keysCall
        flagged == {i \in 1..Len(k.schema) : k.schema[i].key}
        indexed == {i \in 1..Len(k.schema) : Truthy(k.schema[i].index)}
    IN k.calls > 0 =>
        /\ k.optionKeys # "undefined" => k.ret = k.optionKeys
        /\ k.optionKeys = "undefined" /\ flagged # {} =>
              /\ {k.ret[j] : j \in 1..Len(k.ret)} = flagged
              /\ Len(k.ret) = Cardinality(flagged)
              /\ \A a, b \in 1..Len(k.ret) : a < b => k.ret[a] < k.ret[b]
        /\ k.optionKeys = "undefined" /\ flagged = {} /\ indexed # {} =>
              /\ Len(k.ret) = 1
              /\ k.ret[1] \in indexed
              /\ \A i \in indexed : k.ret[1] <= i
        /\ k.optionKeys = "undefined" /\ flagged = {} /\ indexed = {} =>
              k.ret = "none" /\ k.thrown = "INTERNAL_ERROR"
        /\ k.thrown = "INTERNAL_ERROR" => k.optionKeys = "undefined" /\ flagged = {} /\ indexed = {}

\* getKeys() fell back to the first of two index-flagged paths of a schema
\* with no key flag, with no keys option.
C25_Witness ==
    /\ keysCall.calls > 0
    /\ keysCall.optionKeys = "undefined"
    /\ Len(keysCall.schema) = 2
    /\ \A i \in 1..2 : ~keysCall.schema[i].key /\ Truthy(keysCall.schema[i].index)
    /\ keysCall.ret = <<1>>

\* C26: converting a query that exact-matches a schema field whose index is
\* unset or false, and that no extra index targets, fails with a validation
\* error whose message names that field; no filter is returned.
C26_UnindexedExactMatchFails ==
    LET q == queryCall
    IN (/\ q.done /\ q.expr = "exact" /\ q.field \in QueryFields
        /\ q.schema[q.field] \in {"undefined", "false"}
        /\ \A i \in 1..Len(q.extraIndexes) : q.extraIndexes[i].field # q.field)
       => /\ q.error.kind = "QueryValidationError"
          /\ q.error.field = q.field
          /\ q.filter = NoFilter

\* C27: a $text match is converted to a match query only when the target
\* field is indexed for analyzed text, by its schema or by an extra index;
\* against a field with no analyzed index the conversion fails with a
\* validation error.
C27_TextNeedsAnalyzed ==
    LET q == queryCall
        analyzed == \/ q.schema[q.field] = "analyzed"
                    \/ \E i \in 1..Len(q.extraIndexes) :
                          /\ q.extraIndexes[i].field = q.field
                          /\ q.extraIndexes[i].index = "analyzed"
    IN (q.done /\ q.expr = "$text" /\ q.field \in QueryFields)
       => /\ q.filter.kind = "match" => analyzed
          /\ ~analyzed => q.error.kind = "QueryValidationError"

\* C28: convertAggregateResult returns one entry per leaf bucket combination
\* with a non-zero document count and none for zero-count buckets; each
\* entry's keys array holds exactly one key per groupBy entry, in groupBy
\* order, a range group contributing the bucket's positional index and not
\* the engine's label.
C28_EntryPerLeaf ==
    LET a == aggCall
        top == a.aggregateResult.buckets
        KeyAt(level, i) == IF a.groupBy[level] = "range" THEN <<"index", i - 1>>
                           ELSE Label(i - 1)
        combos == IF Len(a.groupBy) = 1
                  THEN {<<KeyAt(1, i)>> : i \in {n \in 1..Len(top) : top[n].doc_count > 0}}
                  ELSE {<<KeyAt(1, p[1]), KeyAt(2, p[2])>> :
                          p \in {q \in (1..Len(top)) \X (1..MaxBuckets) :
                                    /\ q[2] <= Len(top[q[1]].buckets)
                                    /\ top[q[1]].doc_count > 0
                                    /\ top[q[1]].buckets[q[2]].doc_count > 0}}
    IN a.done /\ a.groupBy # <<>> /\ top # <<>> =>
        /\ \A n \in 1..Len(a.result.items) : Len(a.result.items[n].keys) = Len(a.groupBy)
        /\ {a.result.items[n].keys : n \in 1..Len(a.result.items)} = combos
        /\ Len(a.result.items) = Cardinality(combos)

C30_RetryAfterFailure ==
    [][(idxPc.at = "failed" /\ idxStats'.initCalls > idxStats.initCalls) =>
            /\ idxPc'.at = "awaitClient"
            /\ promises'[indexWaiter'.promise] = "pending"]_vars

\* C31: save() issues the purge delete exactly when the Document has a
\* non-null original snapshot and at least one of id, routing, index, parent
\* differs between its current fields and its original fields, a field that
\* was absent in the original and is set now included; otherwise it issues
\* no delete.
C31_PurgeExactlyWhenChanged ==
    [][\A c \in 1..MaxDocCalls :
        (docCalls[c].pc = "client" /\ docCalls'[c].pc \in {"purging", "indexing"}) =>
            ((\E r \in inflight' \ inflight : r.kind = "delete")
                <=> (/\ originalFields # <<>>
                     /\ \E k \in {"id", "routing", "index", "parent"} :
                            fields'[k] # originalFields[1][k]))]_vars

\* The configuration given to the Index constructor, and the copy the
\* constructor keeps: shards, replicas and warmers.
GivenConfig == [shards |-> 5, replicas |-> 1, warmers |-> 1..NumWarmers, aliases |-> {"a_name"}]
IndexConfig ==
    [shards |-> GivenConfig.shards, replicas |-> GivenConfig.replicas,
     warmers |-> GivenConfig.warmers]

\* The aliases the requests of a finished initialization have applied: the
\* create body and the putSettings and putWarmer requests are built from the
\* kept configuration and carry settings and warmers only.
AliasesApplied ==
    IF idxPc.at = "ready" /\ "aliases" \in DOMAIN IndexConfig
    THEN IndexConfig.aliases ELSE {}

\* C32: when an Index's configuration contains aliases, initialization
\* applies every configured alias to the index, both when the index is newly
\* created and when it already exists.
C32_AliasesApplied ==
    idxPc.at = "ready" => GivenConfig.aliases \subseteq AliasesApplied

Has(requests, kind) == \E i \in 1..Len(requests) : requests[i] = kind

\* C33: findStream issues a scroll-clear request only on the error path: when
\* scrolling stops because the data is exhausted or the limit has been
\* reached, no scroll-clear request is issued.
C33_ClearOnlyOnError ==
    /\ [](Has(fs.requests, "clear") => fs.cause # "none")
    /\ [](fs.pc \in {"ending", "ended"} /\ fs.cause = "none" => ~Has(fs.requests, "clear"))
    /\ [][Len(fs'.requests) > Len(fs.requests) /\ fs'.requests[Len(fs'.requests)] = "clear"
            => fs.pc = "request" /\ fs.scrollId /\ fs'.pc = "clearing"]_vars

\* A findStream ended by its limit while records remain behind the scroll,
\* with no clear request made.
C33_Witness ==
    /\ fs.pc = "ended"
    /\ fs.cause = "none"
    /\ fs.limit > 0 /\ fs.progress >= fs.limit /\ fs.matched > fs.progress
    /\ Has(fs.requests, "scroll")
    /\ ~Has(fs.requests, "clear")

\* C34: when the mapping push cached by a Model for an index has rejected,
\* the rejected push stays cached: no later call starts a new push or issues
\* another put-mapping request, and every initialize(), getClient() or
\* getMapping() call that comes to depend on the cached push rejects with its
\* error; none of them succeeds.
C34_RejectedPushCached ==
    /\ [](indexMappingPromises /\ push.pc = "failed" =>
            \A c \in 1..MaxCalls : calls[c].pc \notin {"awaitConn", "done"})
    /\ [][indexMappingPromises /\ push.pc = "failed" =>
            /\ indexMappingPromises'
            /\ push' = push
            /\ putMappings' = putMappings
            /\ \A c \in 1..MaxCalls :
                  /\ (calls[c].pc = "ensureIndex" /\ calls'[c].pc # "ensureIndex") =>
                         calls'[c].pc \in {"awaitMapping", "failed"}
                  /\ (calls[c].pc = "awaitMapping" /\ calls'[c].pc # "awaitMapping") =>
                         (calls'[c].pc = "failed" /\ calls'[c].seen = "failed")]_vars

\* The put-mapping request was refused, one call has rejected with it and a
\* second call, whose Index is ready, is handed the cached rejected push.
C34_Witness ==
    /\ indexMappingPromises
    /\ push.pc = "failed"
    /\ Len(putMappings) = 1
    /\ calls[1].pc = "failed" /\ calls[1].seen = "failed"
    /\ calls[2].pc = "awaitMapping"

\* C35: converting the same schema with the same extra-index list twice
\* yields equal mappings, and convertSchema leaves the caller's extra-index
\* specs unchanged.
C35_ConversionRepeatable ==
    /\ schemaCall.done => schemaCall.held = schemaCall.extraIndexes
    /\ schemaCall.redone =>
          /\ schemaCall.again = schemaCall.result
          /\ schemaCall.held = schemaCall.extraIndexes

\* C36: when save() fails at the index request after its purge delete
\* succeeded, the record is not lost: while the Document's original snapshot
\* is set, a copy exists in the engine at the old or at the new coordinates.
C36_RecordNotLost ==
    [][\A c \in 1..MaxDocCalls :
        (/\ docCalls[c].pc = "indexing" /\ docCalls[c].purge = "ok"
         /\ docCalls'[c].pc = "failed") =>
            (originalFields' # <<>> =>
                \/ EngineHas(engine', docCalls[c].old[1].id, docCalls[c].old[1].routing,
                             docCalls[c].old[1].parent)
                \/ EngineHas(engine', docCalls[c].req.id, docCalls[c].req.routing,
                             docCalls[c].req.parent))]_vars

\* C37: save() calls that overlap on one Document never leave two live copies
\* of the record in the engine, and when all of them have resolved the
\* original snapshot holds the coordinates of the one live copy.
C37_OverlappingSaves ==
    (edits > 0 /\ docCalls[2].pc # "idle") =>
        /\ \A id \in Ids : Cardinality(Copies(engine, id)) <= 1
        /\ (\A c \in 1..MaxDocCalls : docCalls[c].pc = "done") =>
              /\ originalFields # <<>>
              /\ EngineHas(engine, originalFields[1].id, originalFields[1].routing,
                           originalFields[1].parent)

\* C38: in every run of a findStream call the promise of getTotal()
\* eventually settles, also when the client or the index cannot be resolved
\* or the initial search fails.
C38_TotalSettles ==
    fs.pc = "resolving" ~> Len(fs.totals) > 0

\* C39: a findStream call issues the initial search exactly once, as its
\* first request, and every later request is a scroll continuation (or the
\* clear of the scroll), whatever the engine returns, a first response
\* without a scroll id included.
C39_SearchOnce ==
    \A i \in 1..Len(fs.requests) : fs.requests[i] = "search" <=> i = 1
====
